---- MODULE Spec2Model ----
(***************************************************************************)
(* Model of the wine inventory service (GeirOwe/vin): the stock-mutation   *)
(* handlers of app/api/endpoints/wines.py running as concurrent requests,  *)
(* each in its own SQLAlchemy session (app/database.py), over the tables   *)
(* of app/models.py.                                                       *)
(*                                                                         *)
(* A handler is a sequence of database interactions.  Everything a handler *)
(* does between two interactions is local to its thread and is part of the *)
(* step that performs the interaction before it:                           *)
(*   start   the SELECT that loads the wine, the validation and the        *)
(*           in-memory changes (wine.quantity = ..., db.add(...));         *)
(*   Execute one statement of the flush that db.commit() performs, inside  *)
(*           the session's transaction (not visible to other sessions);    *)
(*   Commit  the COMMIT at the end of db.commit();                         *)
(*   Respond the db.refresh(...) reads and the response assembly;          *)
(*   Fail    a database statement raising: the handler's except clause     *)
(*           answers 500 and get_db closes the session (rollback).         *)
(* A step that ends a handler puts its answer in `reply` and frees the     *)
(* thread.                                                                 *)
(***************************************************************************)
EXTENDS Integers, Sequences, FiniteSets, TLC

(***************************************************************************)
(* Optional values (Python None / SQL NULL): None is <<>>, a value v is    *)
(* <<v>>.                                                                  *)
(***************************************************************************)
None == <<>>
Some(v) == <<v>>

\* Python's `x or 0` on an Optional[int].
OrZero(q) == IF q = None THEN 0 ELSE q[1]

\* Python truthiness of an Optional[str]: neither None nor "" (the text is a
\* string of the model or a sequence of code points).
Truthy(s) == s # None /\ Len(s[1]) > 0

(***************************************************************************)
(* Text whose characters matter (it is searched, sorted, stripped or       *)
(* case-folded) is a sequence of code points; the model's texts are ASCII. *)
(* Dates are day numbers.                                                  *)
(***************************************************************************)
\* Python truthiness of an Optional[str] held as code points.
NonEmpty(s) == s # None /\ s[1] # <<>>

(***************************************************************************)
(* Bounds of the model.                                                    *)
(***************************************************************************)
\* Writing requests (create, adjust, consume) served in one behaviour; requests
\* that only read are not counted, they leave nothing behind.
MaxRequests == 3
\* Wines created in one behaviour.
MaxWines == 1
\* Largest quantity a create request carries.
MaxCreateQuantity == 1
\* Wines in the table a paginated list is run against.
MaxRows == 3
\* Largest page and page size asked for.
MaxPage == 3
MaxPageSize == 2
\* Wines in the table a drinking-window filter is run against.
MaxFilterRows == 1
\* Entries of a create request's grape composition.
MaxGrapes == 3
\* Matching wines whose pages are counted.
MaxTotalItems == 30
\* Stock mutations (adjust, consume) started in a behaviour that also serves the
\* reads of one wine.
MaxMutations == 2

\* The threads of the server's pool that run handlers at the same time.
Workers == {1, 2}

\* Request inputs.
AdjustPayloads ==
    {[quantity_change |-> -1, notes |-> None],
     [quantity_change |-> 0, notes |-> Some("recount")],
     [quantity_change |-> 1, notes |-> None]}
\* A create request (WineCreateRequest) with only its required field, the name
\* ("w").  A purchase_price is a number of hundredths.
NoPayload ==
    [name |-> <<119>>, type |-> None, producer |-> None, vintage |-> None,
     country |-> None, district |-> None, subdistrict |-> None,
     purchase_price |-> None, quantity |-> None,
     drink_after_date |-> None, drink_before_date |-> None,
     grape_composition |-> None]
\* The create requests of the stock-mutation runs: a name and a quantity.
QuantityPayloads ==
    {[NoPayload EXCEPT !.quantity = q] :
        q \in {None} \cup {Some(n) : n \in 0..MaxCreateQuantity}}
TastingRequests ==
    {None,
     Some([rating |-> None, notes |-> None]),
     Some([rating |-> None, notes |-> Some("")]),
     Some([rating |-> Some(8), notes |-> None]),
     Some([rating |-> None, notes |-> Some("fruity")])}
\* Wine identities a request may name: the existing ones and one that is absent.
WineIds == 1..(MaxWines + 1)

(***************************************************************************)
(* State.                                                                  *)
(*   db      the committed contents of the tables: what any session's      *)
(*           SELECT returns.  A row's id is its position in its table; a   *)
(*           grape composition row names its wine by wine_id.              *)
(*   req     per worker thread, the request it is handling, with the       *)
(*           state of its session.                                         *)
(*   reply   the answer the last step sent, if it ended a handler (NoReply  *)
(*           otherwise): the request answered, the HTTP status and the     *)
(*           response body.                                                *)
(*   served  the number of writing requests started.                       *)
(*   now     the latest value datetime.utcnow() has returned to a session, *)
(*           counted in readings of the clock (0: none yet).               *)
(***************************************************************************)
VARIABLES db, req, reply, served, now

vars == <<db, req, reply, served, now>>

NoResponse ==
    [wine_quantity |-> None, inventory_log |-> None, tasting_note |-> None,
     logs |-> <<>>, wines |-> <<>>, page |-> None, count |-> None, raised |-> None,
     suggestion |-> None, upstream |-> None]

\* The filter parameters of the list operations, all absent.
NoFilter ==
    [search_term |-> None, wine_type |-> None, vintage |-> None, country |-> None,
     district |-> None, subdistrict |-> None, drinking_window_status |-> None]

\* The query parameters of list_wines_page, with their defaults.
NoQuery ==
    [page |-> 1, page_size |-> 10, sort_by |-> "id", sort_order |-> "desc",
     filter |-> NoFilter]

\* ExternalWineApiConfig.from_env() with neither environment variable set.
NoConfig == [base_url |-> None, api_key |-> None]

\* A request: the operation and its inputs (the fields an operation does not take
\* keep their defaults).  path is the path of a request that comes through the
\* router, cfg the configuration its handler loads from the environment.
NoRequest ==
    [op |-> "none", wine_id |-> 0, quantity_change |-> 0, notes |-> None,
     tasting_request |-> None, payload |-> NoPayload, query |-> NoQuery,
     path |-> <<>>, cfg |-> NoConfig]

NoReply == [worker |-> 0, request |-> NoRequest, status |-> 0, response |-> NoResponse]

\* A worker's session state: timestamp is the value the default of
\* InventoryLog.timestamp gave the session's log row (None until its INSERT is
\* built), total_items the count list_wines_page has read.
IdleRequest ==
    [pc |-> "idle", request |-> NoRequest,
     loaded |-> None, current_quantity |-> 0, new_quantity |-> 0, flushed |-> 0,
     timestamp |-> None, total_items |-> 0]

\* Base.metadata.create_all on an empty database; no request running.
Init ==
    /\ db = [wines |-> <<>>, grape_compositions |-> <<>>, inventory_logs |-> <<>>,
             tasting_notes |-> <<>>]
    /\ req = [t \in Workers |-> IdleRequest]
    /\ reply = NoReply
    /\ served = 0
    /\ now = 0

(***************************************************************************)
(* Tables and queries.                                                     *)
(***************************************************************************)
\* select(Wine).where(Wine.id == wine_id) ... scalar_one_or_none() is not None
WineExists(d, wine_id) == wine_id \in 1..Len(d.wines)

\* The entries of a request's grape_composition (none when it is absent).
GrapeEntries(grape_composition) ==
    IF grape_composition = None THEN <<>> ELSE grape_composition[1]

\* CheckConstraint ck_wines_quantity_non_negative
QuantityCheck(q) == q = None \/ q[1] >= 0

\* CheckConstraint ck_wines_price_non_negative
PriceCheck(purchase_price) == purchase_price = None \/ purchase_price[1] >= 0

\* CheckConstraint ck_notes_rating_range
RatingCheck(rating) == rating = None \/ (rating[1] >= 1 /\ rating[1] <= 10)

\* CheckConstraint ck_wines_drinking_window_order
DrinkingWindowCheck(drink_after_date, drink_before_date) ==
    \/ drink_after_date = None
    \/ drink_before_date = None
    \/ drink_after_date[1] < drink_before_date[1]

\* A percentage is a decimal number of hundredths of a percent (10000 is 100%).
\* CheckConstraint ck_grapes_percentage_range
PercentageCheck(percentage) == percentage >= 0 /\ percentage <= 10000

\* Mutant: the log row takes the change for the resulting quantity.
AdjustLogRow_ChangeAsQuantity(wine_id, quantity_change, new_quantity, notes) ==
    [wine_id |-> wine_id, change_type |-> "manual_adjustment",
     quantity_change |-> quantity_change, new_quantity |-> quantity_change,
     notes |-> notes, timestamp |-> None]

\* InventoryLog(...) of update_wine_quantity; the timestamp is not set by the
\* handler.
AdjustLogRow(wine_id, quantity_change, new_quantity, notes) ==
    [wine_id |-> wine_id, change_type |-> "manual_adjustment",
     quantity_change |-> quantity_change, new_quantity |-> new_quantity,
     notes |-> notes, timestamp |-> None]

\* InventoryLog(...) of consume_wine.
ConsumeLogRow(wine_id, new_quantity) ==
    [wine_id |-> wine_id, change_type |-> "consume", quantity_change |-> -1,
     new_quantity |-> new_quantity, notes |-> Some("Bottle consumed"),
     timestamp |-> None]

\* The placeholder user of consume_wine.
PlaceholderUserId == 1

\* TastingNote(...) of consume_wine.
TastingNoteRow(wine_id, tasting) ==
    [wine_id |-> wine_id, user_id |-> PlaceholderUserId,
     rating |-> tasting.rating, notes |-> tasting.notes]

\* Mutant: any payload makes a tasting note.
HasTasting_AnyPayload(tasting_request) == tasting_request # None

\* `tasting_request and (tasting_request.rating is not None or tasting_request.notes)`
HasTasting(tasting_request) ==
    /\ tasting_request # None
    /\ (tasting_request[1].rating # None \/ Truthy(tasting_request[1].notes))

(***************************************************************************)
(* The unit of work of a session: the statements db.commit() flushes, in   *)
(* order.  The ORM emits an UPDATE only for an attribute whose value       *)
(* differs from the one it loaded, so assigning a wine the quantity it     *)
(* already had flushes no UPDATE.                                          *)
(***************************************************************************)
UpdateWineStmts(r) ==
    IF Some(r.new_quantity) = r.loaded
    THEN <<>>
    ELSE <<[kind |-> "update_wine", wine_id |-> r.request.wine_id,
            quantity |-> Some(r.new_quantity)]>>

\* The session's log row as its INSERT sends it: with the timestamp that the
\* column's default (datetime.utcnow) gave when the statement was built.
LogRow(r) ==
    [(IF r.request.op = "adjust"
      THEN AdjustLogRow(r.request.wine_id, r.request.quantity_change,
                        r.new_quantity, r.request.notes)
      ELSE ConsumeLogRow(r.request.wine_id, r.new_quantity))
     EXCEPT !.timestamp = r.timestamp]

\* Mutant: the log row is written twice.
InsertLogStmts_Twice(r) == [i \in 1..2 |-> [kind |-> "insert_log", row |-> LogRow(r)]]

InsertLogStmts(r) == <<[kind |-> "insert_log", row |-> LogRow(r)]>>

InsertNoteStmts(r) ==
    IF r.request.op = "consume" /\ HasTasting(r.request.tasting_request)
    THEN <<[kind |-> "insert_note",
            row |-> TastingNoteRow(r.request.wine_id, r.request.tasting_request[1])]>>
    ELSE <<>>

\* Wine(...) of create_wine: the row takes the request's fields.
WineRow(payload) ==
    [name |-> payload.name, type |-> payload.type, producer |-> payload.producer,
     vintage |-> payload.vintage, country |-> payload.country,
     district |-> payload.district, subdistrict |-> payload.subdistrict,
     purchase_price |-> payload.purchase_price,
     quantity |-> payload.quantity, drink_after_date |-> payload.drink_after_date,
     drink_before_date |-> payload.drink_before_date]

\* GrapeComposition(wine_id=wine.id, ...) of create_wine.
GrapeRow(wine_id, gc) ==
    [wine_id |-> wine_id, grape_variety |-> gc.grape_variety,
     percentage |-> gc.percentage]

\* create_wine: db.add(wine); db.flush(); then db.add(gc_row) for each entry of the
\* request, flushed when the `with db.begin()` block commits.
CreateStmts(r) ==
    <<[kind |-> "insert_wine", row |-> WineRow(r.request.payload)]>>
    \o [i \in 1..Len(GrapeEntries(r.request.payload.grape_composition)) |->
          [kind |-> "insert_grape",
           entry |-> GrapeEntries(r.request.payload.grape_composition)[i]]]

UnitOfWork(r) ==
    IF r.request.op = "create"
    THEN CreateStmts(r)
    ELSE UpdateWineStmts(r) \o InsertLogStmts(r) \o InsertNoteStmts(r)

\* The effect of one statement on the tables.
ApplyStmt(d, s) ==
    CASE s.kind = "update_wine" ->
            [d EXCEPT !.wines[s.wine_id].quantity = s.quantity]
      [] s.kind = "insert_log" ->
            [d EXCEPT !.inventory_logs = Append(@, s.row)]
      [] s.kind = "insert_note" ->
            [d EXCEPT !.tasting_notes = Append(@, s.row)]
      [] s.kind = "insert_wine" ->
            [d EXCEPT !.wines = Append(@, s.row)]
      [] s.kind = "insert_grape" ->
            \* wine.id is the id the wine's INSERT was given: the last of the table.
            [d EXCEPT !.grape_compositions =
                          Append(@, GrapeRow(Len(d.wines), s.entry))]

RECURSIVE ApplyAll(_, _)
ApplyAll(d, stmts) ==
    IF stmts = <<>> THEN d ELSE ApplyAll(ApplyStmt(d, Head(stmts)), Tail(stmts))

\* The statements a session has executed in its open transaction.
Transaction(r) == SubSeq(UnitOfWork(r), 1, r.flushed)

\* A statement the database refuses (IntegrityError).
Refused(s) ==
    CASE s.kind = "update_wine" -> ~QuantityCheck(s.quantity)
      [] s.kind = "insert_wine" ->
            \/ ~QuantityCheck(s.row.quantity)
            \/ ~PriceCheck(s.row.purchase_price)
            \/ ~DrinkingWindowCheck(s.row.drink_after_date, s.row.drink_before_date)
      [] s.kind = "insert_grape" -> ~PercentageCheck(s.entry.percentage)
      [] s.kind = "insert_note" -> ~RatingCheck(s.row.rating)
      [] OTHER -> FALSE

\* COMMIT: the transaction's statements become visible together.
Committed(d, tx) == ApplyAll(d, tx)

\* Mutant: closing the session keeps what the transaction wrote.
RolledBack_Keeps(d, tx) == ApplyAll(d, tx)

\* Session.close() on an open transaction: ROLLBACK.
RolledBack(d, tx) == d

(***************************************************************************)
(* Request validation (app/schemas.py).                                    *)
(***************************************************************************)
\* class WineType(str, Enum): Red, White, Rose, Sparkling, Dessert, Fortified
WineType ==
    {<<82, 101, 100>>, <<87, 104, 105, 116, 101>>, <<82, 111, 115, 101>>,
     <<83, 112, 97, 114, 107, 108, 105, 110, 103>>,
     <<68, 101, 115, 115, 101, 114, 116>>,
     <<70, 111, 114, 116, 105, 102, 105, 101, 100>>}

\* The characters str.strip() removes.
Whitespace == (9..13) \cup (28..32)

\* str.strip()
RECURSIVE Strip(_)
Strip(s) ==
    IF s = <<>> THEN s
    ELSE IF s[1] \in Whitespace THEN Strip(Tail(s))
    ELSE IF s[Len(s)] \in Whitespace THEN Strip(SubSeq(s, 1, Len(s) - 1))
    ELSE s

\* str.lower(), on ASCII.
Lower(s) == [i \in 1..Len(s) |-> IF s[i] \in 65..90 THEN s[i] + 32 ELSE s[i]]

\* gc.grape_variety.strip().lower()
Variety(grape_variety) == Lower(Strip(grape_variety))

(***************************************************************************)
(* Python's float (IEEE 754 binary64), for the percentages.  A float below *)
(* 2^15 in magnitude that is a multiple of 2^-60 is [neg, mag]: its sign   *)
(* and the five digits of |x| * 2^60 in base 2^15, the least first.  The   *)
(* floats of percentages of 0.01 and more, their sums and their            *)
(* differences are all of this kind.                                       *)
(***************************************************************************)
\* a < b, of magnitudes.
MagLess(a, b) == \E i \in 1..5 : a[i] < b[i] /\ \A j \in (i + 1)..5 : a[j] = b[j]

\* The magnitude rounded to the 53 significant bits of a float, to the nearest
\* and on a tie to the even one; sticky tells that the exact value has more bits
\* below the last digit.
Round(mag, sticky) ==
    LET nonzero == {i \in 1..5 : mag[i] # 0}
        top == CHOOSE i \in nonzero : \A j \in nonzero : j <= i
        lead == 15 * (top - 1)
                   + (CHOOSE k \in 0..14 : 2^k <= mag[top] /\ mag[top] < 2^(k + 1))
        last == lead - 52
        bit(i) == (mag[(i \div 15) + 1] \div 2^(i % 15)) % 2
        up == /\ bit(last - 1) = 1
              /\ (sticky \/ bit(last) = 1 \/ \E i \in 0..(last - 2) : bit(i) = 1)
        kept == [i \in 1..5 |->
                    IF i < (last \div 15) + 1 THEN 0
                    ELSE IF i = (last \div 15) + 1 THEN mag[i] - (mag[i] % 2^(last % 15))
                    ELSE mag[i]]
        unit == [i \in 1..5 |-> IF i = (last \div 15) + 1 THEN 2^(last % 15) ELSE 0]
        carry[i \in 0..5] ==
            IF i = 0 THEN 0 ELSE (kept[i] + unit[i] + carry[i - 1]) \div 32768
    IN  IF nonzero = {} THEN mag
        ELSE IF last <= 0 THEN mag
        ELSE IF up THEN [i \in 1..5 |-> (kept[i] + unit[i] + carry[i - 1]) % 32768]
        ELSE kept

\* The float of a percentage written with two decimals (the body's 64.1 is
\* 6410): the float nearest to hundredths / 100, by long division.
Float(hundredths) ==
    LET n == IF hundredths < 0 THEN -hundredths ELSE hundredths
        digit(i) == IF i = 5 THEN n ELSE 0
        rem[i \in 1..6] ==
            IF i = 6 THEN 0 ELSE (rem[i + 1] * 32768 + digit(i)) % 100
    IN  [neg |-> hundredths < 0,
         mag |-> Round([i \in 1..5 |-> (rem[i + 1] * 32768 + digit(i)) \div 100],
                       rem[1] # 0)]

\* x + y of floats: the exact sum (of the magnitudes, or the larger less the
\* smaller), rounded.
Plus(x, y) ==
    LET MagSum(a, b) ==
            LET carry[i \in 0..5] ==
                    IF i = 0 THEN 0 ELSE (a[i] + b[i] + carry[i - 1]) \div 32768
            IN  [i \in 1..5 |-> (a[i] + b[i] + carry[i - 1]) % 32768]
        MagDiff(a, b) ==
            LET borrow[i \in 0..5] ==
                    IF i = 0 THEN 0
                    ELSE IF a[i] - b[i] - borrow[i - 1] < 0 THEN 1 ELSE 0
            IN  [i \in 1..5 |-> (a[i] - b[i] - borrow[i - 1] + 32768) % 32768]
    IN  IF x.neg = y.neg THEN [neg |-> x.neg, mag |-> Round(MagSum(x.mag, y.mag), FALSE)]
        ELSE IF x.mag = y.mag THEN [neg |-> FALSE, mag |-> <<0, 0, 0, 0, 0>>]
        ELSE IF MagLess(x.mag, y.mag)
        THEN [neg |-> y.neg, mag |-> Round(MagDiff(y.mag, x.mag), FALSE)]
        ELSE [neg |-> x.neg, mag |-> Round(MagDiff(x.mag, y.mag), FALSE)]

\* sum(gc.percentage for gc in self.grape_composition), as the interpreter adds
\* floats: one after the other (CPython up to 3.11) or, compensated, with the
\* rounding errors collected in c and added at the end (CPython from 3.12).
Total(entries, compensated) ==
    LET zero == [neg |-> FALSE, mag |-> <<0, 0, 0, 0, 0>>]
        Minus(a, b) == Plus(a, [b EXCEPT !.neg = ~b.neg])
        RECURSIVE sum(_, _, _)
        sum(i, f_result, c) ==
            IF i > Len(entries)
            THEN IF c.mag # zero.mag THEN Plus(f_result, c) ELSE f_result
            ELSE LET x == Float(entries[i].percentage)
                     t == Plus(f_result, x)
                 IN  IF ~compensated THEN sum(i + 1, t, zero)
                     ELSE IF ~MagLess(f_result.mag, x.mag)
                     THEN sum(i + 1, t, Plus(c, Plus(Minus(f_result, t), x)))
                     ELSE sum(i + 1, t, Plus(c, Plus(Minus(x, t), f_result)))
    IN  sum(1, zero, zero)

\* abs(total - 100.0) > 0.5
SumRejected(total) ==
    MagLess(<<0, 0, 0, 16384, 0>>,
            Plus(total, [neg |-> TRUE, mag |-> <<0, 0, 0, 0, 100>>]).mag)

\* Mutant: equal dates pass.
DatesRejected_Equal(drink_after_date, drink_before_date) ==
    /\ drink_after_date # None
    /\ drink_before_date # None
    /\ drink_after_date[1] > drink_before_date[1]

\* if self.drink_after_date and self.drink_before_date:
\*     if self.drink_after_date >= self.drink_before_date: raise ValueError
DatesRejected(drink_after_date, drink_before_date) ==
    /\ drink_after_date # None
    /\ drink_before_date # None
    /\ drink_after_date[1] >= drink_before_date[1]

\* len(set(varieties)) != len(varieties)
DuplicateVarieties(entries) ==
    Cardinality({Variety(entries[i].grape_variety) : i \in 1..Len(entries)})
        # Len(entries)

\* WineCreateRequest.validate_dates_and_grapes: TRUE when it raises.
validate_dates_and_grapes(payload, compensated) ==
    \/ DatesRejected(payload.drink_after_date, payload.drink_before_date)
    \/ /\ GrapeEntries(payload.grape_composition) # <<>>
       /\ \/ SumRejected(Total(GrapeEntries(payload.grape_composition), compensated))
          \/ DuplicateVarieties(GrapeEntries(payload.grape_composition))

\* GrapeCompositionSchema: the constraints of its fields.
GrapeCompositionSchema(gc) ==
    /\ Len(gc.grape_variety) >= 1
    /\ Len(gc.grape_variety) <= 100
    /\ gc.percentage >= 0
    /\ gc.percentage <= 10000

\* WineCreateRequest: the constraints of its fields, then its validator, run by
\* an interpreter whose sum() is compensated or not.
WineCreateRequest(payload, compensated) ==
    /\ Len(payload.name) >= 1
    /\ Len(payload.name) <= 255
    /\ payload.type = None \/ payload.type[1] \in WineType
    /\ payload.producer = None \/ Len(payload.producer[1]) <= 255
    /\ payload.vintage = None \/ payload.vintage[1] \in 1800..2100
    /\ payload.country = None \/ Len(payload.country[1]) <= 100
    /\ payload.district = None \/ Len(payload.district[1]) <= 100
    /\ payload.subdistrict = None \/ Len(payload.subdistrict[1]) <= 100
    /\ payload.purchase_price = None \/ payload.purchase_price[1] >= 0
    /\ payload.quantity = None \/ payload.quantity[1] >= 0
    /\ \A i \in 1..Len(GrapeEntries(payload.grape_composition)) :
          GrapeCompositionSchema(GrapeEntries(payload.grape_composition)[i])
    /\ ~validate_dates_and_grapes(payload, compensated)

(***************************************************************************)
(* Handlers.                                                               *)
(***************************************************************************)
CanStart(t) == req[t].pc = "idle" /\ served < MaxRequests

Answer(t, request, status, response) ==
    [worker |-> t, request |-> request, status |-> status, response |-> response]

\* Mutant: the handler has no `except HTTPException: raise`, so its
\* `except Exception` turns the not-found outcome into a 500.
NotFound_Masked(t, request) == Answer(t, request, 500, NoResponse)

\* raise HTTPException(status_code=HTTPStatus.NOT_FOUND, detail="Wine not found"),
\* passed on by `except HTTPException: raise`.
NotFound(t, request) == Answer(t, request, 404, NoResponse)

\* new_quantity = current_quantity + payload.quantity_change
AdjustedQuantity(current_quantity, quantity_change) == current_quantity + quantity_change

\* Mutant: the bound is off by one.
AdjustRejected_OffByOne(new_quantity) == new_quantity < -1

\* if new_quantity < 0: raise HTTPException(BAD_REQUEST)
AdjustRejected(new_quantity) == new_quantity < 0

\* Mutant: a quantity of 0 passes.
ConsumeRejected_Strict(current_quantity) == current_quantity < 0

\* if current_quantity <= 0: raise HTTPException(BAD_REQUEST)
ConsumeRejected(current_quantity) == current_quantity <= 0

\* new_quantity = current_quantity - 1
ConsumedQuantity(current_quantity) == current_quantity - 1

\* The start of a stock mutation: the wine is loaded and the new quantity computed
\* and validated; the request is answered at once (404, 400) or goes on to
\* db.commit().
StartMutation(t, request) ==
    /\ CanStart(t)
    /\ served' = served + 1
    /\ UNCHANGED <<db, now>>
    /\ IF ~WineExists(db, request.wine_id)
       THEN /\ reply' = NotFound(t, request)
            /\ UNCHANGED req
       ELSE LET loaded == db.wines[request.wine_id].quantity
                current_quantity == OrZero(loaded)
                new_quantity == IF request.op = "adjust"
                                THEN AdjustedQuantity(current_quantity, request.quantity_change)
                                ELSE ConsumedQuantity(current_quantity)
                rejected == IF request.op = "adjust"
                            THEN AdjustRejected(new_quantity)
                            ELSE ConsumeRejected(current_quantity)
            IN  IF rejected
                THEN /\ reply' = Answer(t, request, 400, NoResponse)
                     /\ UNCHANGED req
                ELSE /\ req' = [req EXCEPT ![t] =
                                  [IdleRequest EXCEPT
                                      !.pc = "pending", !.request = request,
                                      !.loaded = loaded,
                                      !.current_quantity = current_quantity,
                                      !.new_quantity = new_quantity]]
                     /\ reply' = NoReply

\* PATCH /api/wines/{wine_id}/quantity, up to db.commit().
update_wine_quantity(t, wine_id, quantity_change, notes) ==
    StartMutation(t, [NoRequest EXCEPT !.op = "adjust", !.wine_id = wine_id,
                                       !.quantity_change = quantity_change,
                                       !.notes = notes])

\* POST /api/wines/{wine_id}/consume, up to db.commit().
consume_wine(t, wine_id, tasting_request) ==
    StartMutation(t, [NoRequest EXCEPT !.op = "consume", !.wine_id = wine_id,
                                       !.quantity_change = -1,
                                       !.tasting_request = tasting_request])

\* ORDER BY InventoryLog.timestamp DESC over the rows `ids` of the table: the
\* latest timestamp first; rows of equal timestamps come in the order of the table.
RECURSIVE LatestFirst(_, _)
LatestFirst(logs, ids) ==
    IF ids = {} THEN <<>>
    ELSE LET first == CHOOSE i \in ids :
                          \A j \in ids \ {i} :
                              \/ logs[j].timestamp[1] < logs[i].timestamp[1]
                              \/ (logs[j].timestamp[1] = logs[i].timestamp[1] /\ i < j)
         IN  <<logs[first]>> \o LatestFirst(logs, ids \ {first})

\* select(InventoryLog).where(InventoryLog.wine_id == wine_id)
\*     .order_by(InventoryLog.timestamp.desc())
WineLogs(logs, wine_id) ==
    LatestFirst(logs, {i \in 1..Len(logs) : logs[i].wine_id = wine_id})

\* GET /api/wines/{wine_id}: one SELECT, answered in the step that starts it.
get_wine(t, wine_id) ==
    LET request == [NoRequest EXCEPT !.op = "get", !.wine_id = wine_id]
    IN  /\ req[t].pc = "idle"
        /\ reply' = IF WineExists(db, wine_id)
                    THEN Answer(t, request, 200,
                                [NoResponse EXCEPT
                                    !.wine_quantity = db.wines[wine_id].quantity])
                    ELSE NotFound(t, request)
        /\ UNCHANGED <<db, req, served, now>>

\* GET /api/wines/{wine_id}/inventory-log, up to the SELECT of the wine: 404
\* when there is none; otherwise the SELECT of its rows is still to come, a
\* statement of its own that reads what is committed when it runs.
get_wine_inventory_log(t, wine_id) ==
    LET request == [NoRequest EXCEPT !.op = "inventory_log", !.wine_id = wine_id]
    IN  /\ req[t].pc = "idle"
        /\ UNCHANGED <<db, served, now>>
        /\ IF ~WineExists(db, wine_id)
           THEN /\ reply' = NotFound(t, request)
                /\ UNCHANGED req
           ELSE /\ req' = [req EXCEPT ![t] = [IdleRequest EXCEPT !.pc = "found",
                                                                 !.request = request]]
                /\ reply' = NoReply

\* get_wine_inventory_log from db.execute(stmt) on: the wine's rows are read and
\* answered.
InventoryLogRows(t) ==
    /\ req[t].pc = "found"
    /\ reply' = Answer(t, req[t].request, 200,
                       [NoResponse EXCEPT
                           !.logs = WineLogs(db.inventory_logs, req[t].request.wine_id)])
    /\ req' = [req EXCEPT ![t] = IdleRequest]
    /\ UNCHANGED <<db, served, now>>

(***************************************************************************)
(* The list operations.  A statement (select(Wine) with its filters) is    *)
(* modelled by the rows it returns from the tables d, as ids in the order  *)
(* of the result.                                                          *)
(***************************************************************************)
\* today = date.today(): dates are day numbers counted from today.
Today == 0

\* timedelta(days=30)
DeadlineDays == 30

\* SQL LIKE: % matches any run of characters, _ any one character.
RECURSIVE Like(_, _)
Like(text, pattern) ==
    IF pattern = <<>> THEN text = <<>>
    ELSE IF pattern[1] = 37
         THEN Like(text, Tail(pattern)) \/ (text # <<>> /\ Like(Tail(text), pattern))
         ELSE /\ text # <<>>
              /\ (pattern[1] = 95 \/ pattern[1] = text[1])
              /\ Like(Tail(text), Tail(pattern))

\* column.ilike(f"%{search_term}%"): lower(column) LIKE lower(pattern); NULL
\* matches nothing.
ILike(column, search_term) ==
    /\ column # None
    /\ Like(Lower(column[1]), Lower(<<37>> \o search_term \o <<37>>))

\* column == value in a WHERE clause: a NULL column is not selected.
Equals(column, value) == column # None /\ column[1] = value

\* Mutant: the window's first day is left out.
ready_to_drink_Strict(wine) ==
    /\ wine.drink_after_date # None
    /\ wine.drink_before_date # None
    /\ wine.drink_after_date[1] < Today
    /\ wine.drink_before_date[1] >= Today

\* Wine.drink_after_date <= today, Wine.drink_before_date >= today (a comparison
\* with NULL selects nothing).
ready_to_drink(wine) ==
    /\ wine.drink_after_date # None
    /\ wine.drink_before_date # None
    /\ wine.drink_after_date[1] <= Today
    /\ wine.drink_before_date[1] >= Today

\* Wine.drink_before_date <= today + timedelta(days=30),
\* Wine.drink_before_date >= today
approaching_deadline(wine) ==
    /\ wine.drink_before_date # None
    /\ wine.drink_before_date[1] <= Today + DeadlineDays
    /\ wine.drink_before_date[1] >= Today

\* Wine.drink_after_date > today
not_ready(wine) ==
    /\ wine.drink_after_date # None
    /\ wine.drink_after_date[1] > Today

\* The filters every list query takes, but drinking_window_status: the same lines
\* in apply_filters and in apply_wine_filters.  Each is guarded by the parameter's
\* truthiness (`if wine_type:`), vintage by `is not None`; the endpoints' wine_type
\* is a WineType member, never empty, the library's is any text.
CommonFilters(wine, f) ==
    /\ NonEmpty(f.search_term)
          => (ILike(Some(wine.name), f.search_term[1])
              \/ ILike(wine.producer, f.search_term[1]))
    /\ NonEmpty(f.wine_type) => Equals(wine.type, f.wine_type[1])
    /\ f.vintage # None => Equals(wine.vintage, f.vintage[1])
    /\ NonEmpty(f.country) => Equals(wine.country, f.country[1])
    /\ NonEmpty(f.district) => Equals(wine.district, f.district[1])
    /\ NonEmpty(f.subdistrict) => Equals(wine.subdistrict, f.subdistrict[1])

\* The drinking-window branch: a status that is none of the three adds no
\* condition.
DrinkingWindow(wine, drinking_window_status) ==
    CASE drinking_window_status = "ready_to_drink" -> ready_to_drink(wine)
      [] drinking_window_status = "approaching_deadline" -> approaching_deadline(wine)
      [] drinking_window_status = "not_ready" -> not_ready(wine)
      [] OTHER -> TRUE

\* apply_filters of the endpoints (app/api/endpoints/wines.py): TRUE for a row
\* the filtered statement returns.
apply_filters(wine, f) ==
    /\ CommonFilters(wine, f)
    /\ Truthy(f.drinking_window_status)
          => DrinkingWindow(wine, f.drinking_window_status[1])

\* apply_wine_filters of the query library (app/common/queries.py): as above, and
\* stmt.filter(Wine.quantity > 0) whenever a status is given.
apply_wine_filters(wine, f) ==
    /\ CommonFilters(wine, f)
    /\ Truthy(f.drinking_window_status)
          => /\ DrinkingWindow(wine, f.drinking_window_status[1])
             /\ wine.quantity # None
             /\ wine.quantity[1] > 0

\* The ids of the rows a filtered statement returns.
Filtered(d, f) == {i \in 1..Len(d.wines) : apply_filters(d.wines[i], f)}

\* sort_fields / sort_field: the columns a query may be sorted by.
SortFields == {"id", "name", "producer", "vintage", "type"}

\* The value of the sort column in row i.
SortKey(d, i, sort_by) ==
    CASE sort_by = "id" -> Some(i)
      [] sort_by = "name" -> Some(d.wines[i].name)
      [] sort_by = "producer" -> d.wines[i].producer
      [] sort_by = "vintage" -> d.wines[i].vintage
      [] sort_by = "type" -> d.wines[i].type

\* The order of two texts under the BINARY collation: by code point.
RECURSIVE TextLess(_, _)
TextLess(a, b) ==
    IF b = <<>> THEN FALSE
    ELSE IF a = <<>> THEN TRUE
    ELSE IF a[1] # b[1] THEN a[1] < b[1]
    ELSE TextLess(Tail(a), Tail(b))

\* ORDER BY column ASC of the default database (SQLite): NULL sorts before every
\* value, integers by value, text by code point.
KeyLess(sort_by, a, b) ==
    IF a = None THEN b # None
    ELSE IF b = None THEN FALSE
    ELSE IF sort_by \in {"id", "vintage"} THEN a[1] < b[1]
    ELSE TextLess(a[1], b[1])

\* Mutant: whatever the sort column, the rows come ordered by id.
Before_ById(d, i, j, sort_by, sort_order) ==
    IF sort_order = "desc" THEN j < i ELSE i < j

\* Row i comes before row j in ORDER BY sort_field.asc() / .desc(); rows with equal
\* keys come in the order of the table scan (by id).  Any sort_order but "desc"
\* sorts ascending.
Before(d, i, j, sort_by, sort_order) ==
    IF SortKey(d, i, sort_by) = SortKey(d, j, sort_by) THEN i < j
    ELSE IF sort_order = "desc"
         THEN KeyLess(sort_by, SortKey(d, j, sort_by), SortKey(d, i, sort_by))
         ELSE KeyLess(sort_by, SortKey(d, i, sort_by), SortKey(d, j, sort_by))

\* stmt.order_by(...): the rows `ids` in order.
RECURSIVE OrderBy(_, _, _, _)
OrderBy(d, ids, sort_by, sort_order) ==
    IF ids = {} THEN <<>>
    ELSE LET first == CHOOSE i \in ids :
                          \A j \in ids \ {i} : Before(d, i, j, sort_by, sort_order)
         IN  <<first>> \o OrderBy(d, ids \ {first}, sort_by, sort_order)

\* Mutant: the offset is a page too far.
Offset_PageTooFar(page, page_size) == page * page_size

\* offset = (page - 1) * page_size
Offset(page, page_size) == (page - 1) * page_size

\* stmt.offset(offset).limit(page_size)
OffsetLimit(rows, offset, limit) ==
    SubSeq(rows, offset + 1, IF offset + limit < Len(rows) THEN offset + limit ELSE Len(rows))

\* Mutant: the last, partly filled page is not counted.
TotalPages_Floor(total_items, page_size) == total_items \div page_size

\* total_pages = (total_items + page_size - 1) // page_size
TotalPages(total_items, page_size) == (total_items + page_size - 1) \div page_size

\* The declared constraints of the filter parameters (Query(...), WineType).
FilterValid(f) ==
    /\ f.wine_type = None \/ f.wine_type[1] \in WineType
    /\ f.vintage = None \/ f.vintage[1] \in 1800..2100

\* The declared constraints of list_wines_page's parameters.
PageQueryValid(q) ==
    /\ q.page >= 1
    /\ q.page_size >= 1
    /\ q.page_size <= 100
    /\ q.sort_by \in {"id", "name", "producer", "vintage", "type"}
    /\ q.sort_order \in {"asc", "desc"}
    /\ FilterValid(q.filter)

\* A list operation: it only reads, and is answered in the step that starts it.
ListAnswer(t, request, status, response) ==
    /\ req[t].pc = "idle"
    /\ reply' = Answer(t, request, status, response)
    /\ UNCHANGED <<db, req, served, now>>

\* GET /api/wines: the filtered wines, latest id first.
list_wines(t, f) ==
    LET request == [NoRequest EXCEPT !.op = "list", !.query.filter = f]
    IN  IF ~FilterValid(f)
        THEN ListAnswer(t, request, 422, NoResponse)
        ELSE ListAnswer(t, request, 200,
                        [NoResponse EXCEPT !.wines = OrderBy(db, Filtered(db, f), "id", "desc")])

\* count_stmt, executed on the tables d: apply_filters without the
\* drinking_window_status.
count_stmt(d, q) ==
    Cardinality(Filtered(d, [q.filter EXCEPT !.drinking_window_status = None]))

\* stmt = base_stmt.offset(offset).limit(page_size), executed on the tables d.
stmt(d, q) ==
    OffsetLimit(OrderBy(d, Filtered(d, q.filter), q.sort_by, q.sort_order),
                Offset(q.page, q.page_size), q.page_size)

\* The body of list_wines_page's response: the items as the tables d hold them
\* when stmt is executed, with the total_items counted before.
PageResponse(d, q, total_items) ==
    [items |-> stmt(d, q),
     page |-> q.page, page_size |-> q.page_size,
     total_items |-> total_items,
     total_pages |-> TotalPages(total_items, q.page_size)]

\* GET /api/wines/page, up to db.execute(count_stmt).  A sort_by that is not a key
\* of sort_field raises KeyError, which the handler's `except Exception` answers
\* with 400.  The count is one statement and the items are another, each reading
\* what is committed when it runs.
list_wines_page(t, q) ==
    LET request == [NoRequest EXCEPT !.op = "list_page", !.query = q]
    IN  IF ~PageQueryValid(q)
        THEN ListAnswer(t, request, 422, NoResponse)
        ELSE IF q.sort_by \notin SortFields
        THEN ListAnswer(t, request, 400, NoResponse)
        ELSE /\ req[t].pc = "idle"
             /\ req' = [req EXCEPT ![t] =
                           [IdleRequest EXCEPT !.pc = "counted", !.request = request,
                                               !.total_items = count_stmt(db, q)]]
             /\ reply' = NoReply
             /\ UNCHANGED <<db, served, now>>

\* list_wines_page from db.execute(stmt) on: the items are read and the page is
\* answered.
PageItems(t) ==
    /\ req[t].pc = "counted"
    /\ reply' = Answer(t, req[t].request, 200,
                       [NoResponse EXCEPT
                           !.page = Some(PageResponse(db, req[t].request.query,
                                                      req[t].total_items))])
    /\ req' = [req EXCEPT ![t] = IdleRequest]
    /\ UNCHANGED <<db, served, now>>

(***************************************************************************)
(* The query library (app/common/queries.py), called directly: the answer  *)
(* carries no HTTP status.                                                 *)
(***************************************************************************)
\* build_wine_count_query(...), executed: the number of rows apply_wine_filters
\* lets through.
build_wine_count_query(t, f) ==
    ListAnswer(t, [NoRequest EXCEPT !.op = "build_wine_count_query", !.query.filter = f],
               0,
               [NoResponse EXCEPT
                   !.count = Some(Cardinality({i \in 1..Len(db.wines) :
                                                  apply_wine_filters(db.wines[i], f)}))])

\* apply_sorting(select(Wine), sort_by, sort_order), executed: ValueError for a
\* sort_by that is no sort field.
apply_sorting(t, sort_by, sort_order) ==
    ListAnswer(t, [NoRequest EXCEPT !.op = "apply_sorting", !.query.sort_by = sort_by,
                                    !.query.sort_order = sort_order],
               0,
               IF sort_by \notin SortFields
               THEN [NoResponse EXCEPT !.raised = Some("ValueError")]
               ELSE [NoResponse EXCEPT
                        !.wines = OrderBy(db, 1..Len(db.wines), sort_by, sort_order)])

\* apply_pagination(select(Wine), page, page_size), executed: the rows come in the
\* order of the table scan.
apply_pagination(t, page, page_size) ==
    ListAnswer(t, [NoRequest EXCEPT !.op = "apply_pagination", !.query.page = page,
                                    !.query.page_size = page_size],
               0,
               [NoResponse EXCEPT
                   !.wines = OffsetLimit(OrderBy(db, 1..Len(db.wines), "id", "asc"),
                                         Offset(page, page_size), page_size)])

\* POST /api/wines, up to the first flush.  A request body that fails the
\* validation of WineCreateRequest is answered 422 before the handler runs; the
\* interpreter's sum() is the one or the other.
create_wine(t, payload) ==
    /\ CanStart(t)
    /\ served' = served + 1
    /\ UNCHANGED <<db, now>>
    /\ \E compensated \in BOOLEAN :
          IF ~WineCreateRequest(payload, compensated)
          THEN /\ reply' = Answer(t, [NoRequest EXCEPT !.op = "create",
                                                       !.payload = payload],
                                  422, NoResponse)
               /\ UNCHANGED req
          ELSE /\ reply' = NoReply
               /\ req' = [req EXCEPT ![t] =
                            [IdleRequest EXCEPT !.pc = "pending",
                                                !.request = [NoRequest EXCEPT
                                                                 !.op = "create",
                                                                 !.payload = payload]]]

\* The bound of the wines table: a create request that passes the validation is
\* taken up while fewer than n wines are stored or being created.
Room(payload, n) ==
    (\E compensated \in BOOLEAN : WineCreateRequest(payload, compensated))
        => Len(db.wines) + Cardinality({u \in Workers : req[u].request.op = "create"}) < n

\* datetime.utcnow(): the values a call may return, the one the last call
\* returned (the clock's resolution) or a later one.
utcnow == IF now = 0 THEN {1} ELSE {now, now + 1}

\* The next statement of the session's flush.
NextStmt(r) == UnitOfWork(r)[r.flushed + 1]

\* The values the building of the next statement may read from the clock: the
\* INSERT of a log row takes the default of InventoryLog.timestamp, before the
\* statement is sent; another statement leaves the clock unread.  (The timestamp
\* of a tasting note, which no operation reads, is not modelled.)
Readings(r) == IF NextStmt(r).kind = "insert_log" THEN utcnow ELSE {now}

\* The session after its next statement, built at `reading`, has been executed.
Executed(r, reading) ==
    [r EXCEPT !.flushed = @ + 1,
              !.timestamp = IF NextStmt(r).kind = "insert_log" THEN Some(reading) ELSE @]

\* Mutant: the session runs in autocommit, each statement visible at once.
Execute_Autocommit(t) ==
    /\ req[t].pc = "pending"
    /\ req[t].flushed < Len(UnitOfWork(req[t]))
    /\ \E reading \in Readings(req[t]) :
          /\ now' = reading
          /\ req' = [req EXCEPT ![t] = Executed(req[t], reading)]
          /\ db' = ApplyStmt(db, UnitOfWork(Executed(req[t], reading))[req[t].flushed + 1])
    /\ reply' = NoReply
    /\ UNCHANGED served

\* One statement of the flush, inside the session's transaction.  A statement the
\* database refuses raises: 500, and closing the session rolls back.
Execute(t) ==
    /\ req[t].pc = "pending"
    /\ req[t].flushed < Len(UnitOfWork(req[t]))
    /\ UNCHANGED served
    /\ IF Refused(NextStmt(req[t]))
       THEN /\ db' = RolledBack(db, Transaction(req[t]))
            /\ reply' = Answer(t, req[t].request, 500, NoResponse)
            /\ req' = [req EXCEPT ![t] = IdleRequest]
            /\ UNCHANGED now
       ELSE /\ \E reading \in Readings(req[t]) :
                  /\ now' = reading
                  /\ req' = [req EXCEPT ![t] = Executed(req[t], reading)]
            /\ reply' = NoReply
            /\ UNCHANGED db

\* The COMMIT that ends db.commit() (or the `with db.begin()` block).  A created
\* wine's id is its row's position.
Commit(t) ==
    /\ req[t].pc = "pending"
    /\ req[t].flushed = Len(UnitOfWork(req[t]))
    /\ db' = Committed(db, Transaction(req[t]))
    /\ req' = [req EXCEPT ![t].pc = "committed",
                          ![t].request.wine_id =
                              IF req[t].request.op = "create" THEN Len(db.wines) + 1 ELSE @]
    /\ reply' = NoReply
    /\ UNCHANGED <<served, now>>

\* The response of a handler whose commit succeeded, from the rows as
\* db.refresh(...) (or, in create_wine, the expired attributes' reload) reads them.
ResponseOf(d, r) ==
    [NoResponse EXCEPT
        !.wine_quantity = d.wines[r.request.wine_id].quantity,
        !.inventory_log = IF r.request.op = "consume"
                          THEN Some(InsertLogStmts(r)[1].row) ELSE None,
        !.tasting_note = IF InsertNoteStmts(r) = <<>>
                         THEN None ELSE Some(InsertNoteStmts(r)[1].row)]

Respond(t) ==
    /\ req[t].pc = "committed"
    /\ reply' = Answer(t, req[t].request,
                       IF req[t].request.op = "create" THEN 201 ELSE 200,
                       ResponseOf(db, req[t]))
    /\ req' = [req EXCEPT ![t] = IdleRequest]
    /\ UNCHANGED <<db, served, now>>

\* A database call of the handler raises (connection lost, database locked):
\* `except Exception` answers 500 and get_db's finally closes the session.
Fail(t) ==
    /\ req[t].pc \in {"pending", "committed"}
    /\ db' = IF req[t].pc = "pending" THEN RolledBack(db, Transaction(req[t])) ELSE db
    /\ reply' = Answer(t, req[t].request, 500, NoResponse)
    /\ req' = [req EXCEPT ![t] = IdleRequest]
    /\ UNCHANGED <<served, now>>

Next ==
    \E t \in Workers :
        \/ \E w \in WineIds, p \in AdjustPayloads :
              update_wine_quantity(t, w, p.quantity_change, p.notes)
        \/ \E w \in WineIds, p \in TastingRequests : consume_wine(t, w, p)
        \/ \E p \in QuantityPayloads : Room(p, MaxWines) /\ create_wine(t, p)
        \/ Execute(t)
        \/ Commit(t)
        \/ Respond(t)
        \/ Fail(t)

Spec == Init /\ [][Next]_vars

(***************************************************************************)
(* The list operations over a table of wines that requests have left       *)
(* behind.  The tables are drawn from rows the create operation accepts.   *)
(***************************************************************************)
\* A list operation leaves nothing behind, so a request after it sees what a first
\* request sees: the behaviours below serve one request (none has been answered
\* and none is being served).
FirstRequest == reply = NoReply /\ \A u \in Workers : req[u].pc = "idle"

\* The tables of at most n rows drawn from `rows`.
Tables(rows, n) == UNION {[1..k -> rows] : k \in 0..n}

\* No request running, over the wines of `tables`.
Stored(tables) ==
    /\ \E wines \in tables :
          db = [wines |-> wines, grape_compositions |-> <<>>, inventory_logs |-> <<>>,
                tasting_notes |-> <<>>]
    /\ req = [t \in Workers |-> IdleRequest]
    /\ reply = NoReply
    /\ served = 0
    /\ now = 0

(***************************************************************************)
(* The operations that read one wine (get_wine, get_wine_inventory_log),   *)
(* at any moment while stock mutations run, over one wine that a create    *)
(* request has left behind.  The identities asked for are the stored ones  *)
(* and one that is absent.                                                 *)
(***************************************************************************)
ReadInit == Stored({<<WineRow(p)>> : p \in QuantityPayloads})

ReadNext ==
    \E t \in Workers :
        \/ /\ served < MaxMutations
           /\ \E w \in 1..(Len(db.wines) + 1), p \in AdjustPayloads :
                 update_wine_quantity(t, w, p.quantity_change, p.notes)
        \/ /\ served < MaxMutations
           /\ \E w \in 1..(Len(db.wines) + 1), p \in TastingRequests :
                 consume_wine(t, w, p)
        \/ \E w \in 1..(Len(db.wines) + 1) : get_wine(t, w)
        \/ \E w \in 1..(Len(db.wines) + 1) : get_wine_inventory_log(t, w)
        \/ InventoryLogRows(t)
        \/ Execute(t)
        \/ Commit(t)
        \/ Respond(t)
        \/ Fail(t)

ReadSpec == ReadInit /\ [][ReadNext]_vars

\* Wines that differ in stock and drinking window; the dates are around today and
\* around the 30-day deadline.
FilterWines ==
    {w \in {[WineRow(NoPayload) EXCEPT !.quantity = q, !.drink_after_date = a,
                                       !.drink_before_date = b] :
                q \in {None, Some(0), Some(3)},
                a \in {None, Some(-1), Some(0), Some(1)},
                b \in {None, Some(-1), Some(0), Some(1), Some(30), Some(31)}} :
        WineCreateRequest([NoPayload EXCEPT !.quantity = w.quantity,
                                            !.drink_after_date = w.drink_after_date,
                                            !.drink_before_date = w.drink_before_date],
                          FALSE)}

\* The drinking_window_status values asked for: absent, empty, the three statuses
\* and one that is none of them.
FilterStatuses ==
    {None, Some(""), Some("ready_to_drink"), Some("approaching_deadline"),
     Some("not_ready"), Some("bogus")}

\* The wine_type values the query library is called with: absent, empty and "Red"
\* (the wines of the table have no type).
FilterTypes == {None, Some(<<>>), Some(<<82, 101, 100>>)}

FilterInit == Stored(Tables(FilterWines, MaxFilterRows))

FilterNext ==
    \E t \in Workers, s \in FilterStatuses :
        \/ /\ FirstRequest
           /\ list_wines(t, [NoFilter EXCEPT !.drinking_window_status = s])
        \/ /\ FirstRequest
           /\ list_wines_page(t, [NoQuery EXCEPT !.filter.drinking_window_status = s])
        \/ /\ FirstRequest
           /\ \E wine_type \in FilterTypes :
                 build_wine_count_query(t, [NoFilter EXCEPT !.drinking_window_status = s,
                                                            !.wine_type = wine_type])
        \/ PageItems(t)

FilterSpec == FilterInit /\ [][FilterNext]_vars

\* Wines that differ in vintage (absent, equal, different), in name ("B", "a"),
\* in producer ("p", absent), in type (White, Red) and in being ready to drink.
PageWines ==
    {[WineRow(NoPayload) EXCEPT !.vintage = v, !.name = k.name,
                                !.producer = k.producer, !.type = k.type,
                                !.drink_after_date = k.drink_after_date,
                                !.drink_before_date = k.drink_before_date] :
        v \in {None, Some(2015), Some(2016)},
        k \in {[name |-> <<66>>, producer |-> Some(<<112>>),
                type |-> Some(<<87, 104, 105, 116, 101>>),
                drink_after_date |-> Some(-1), drink_before_date |-> Some(1)],
               [name |-> <<97>>, producer |-> None, type |-> Some(<<82, 101, 100>>),
                drink_after_date |-> None, drink_before_date |-> None]}}

\* The filters asked for: none, a status, a vintage with a search term ("b").
PageFilters ==
    {NoFilter,
     [NoFilter EXCEPT !.drinking_window_status = Some("ready_to_drink")],
     [NoFilter EXCEPT !.vintage = Some(2015), !.search_term = Some(<<98>>)]}

\* The queries asked for: every page, size, order and filter, and those with one
\* parameter out of its range.
PageQueries ==
    {[page |-> p, page_size |-> n, sort_by |-> by, sort_order |-> order, filter |-> f] :
        p \in 1..MaxPage, n \in 1..MaxPageSize, by \in {"id", "vintage", "name"},
        order \in {"asc", "desc"}, f \in PageFilters}
    \cup {[NoQuery EXCEPT !.sort_by = "price"], [NoQuery EXCEPT !.sort_order = "down"],
          [NoQuery EXCEPT !.page = 0], [NoQuery EXCEPT !.page_size = 0],
          [NoQuery EXCEPT !.page_size = 101],
          [NoQuery EXCEPT !.filter.vintage = Some(1799)]}

PageInit == Stored(Tables(PageWines, MaxRows))

PageNext ==
    \E t \in Workers :
        \/ /\ FirstRequest
           /\ \E q \in PageQueries : list_wines_page(t, q)
        \/ /\ FirstRequest
           /\ \E by \in SortFields \cup {"price"}, order \in {"asc", "desc", "down"} :
                 apply_sorting(t, by, order)
        \/ /\ FirstRequest
           /\ \E p \in 1..MaxPage, n \in 1..MaxPageSize : apply_pagination(t, p, n)
        \/ PageItems(t)

PageSpec == PageInit /\ [][PageNext]_vars

(***************************************************************************)
(* Every operation of the service, at any moment while others run, beside  *)
(* a wine that has a history: it was created with no bottle and adjusted   *)
(* by +1.  The creates bring a wine without a quantity, or fail validation *)
(* (a quantity below 0); the lists read between the steps of the writers,  *)
(* and a create may commit between the paginated list's count and its      *)
(* items.                                                                  *)
(***************************************************************************)
FrameInit ==
    /\ db = [wines |-> <<WineRow([NoPayload EXCEPT !.quantity = Some(1)])>>,
             grape_compositions |-> <<>>,
             inventory_logs |-> <<[AdjustLogRow(1, 1, 1, None) EXCEPT !.timestamp = Some(1)]>>,
             tasting_notes |-> <<>>]
    /\ req = [t \in Workers |-> IdleRequest]
    /\ reply = NoReply
    /\ served = 0
    /\ now = 1

FrameNext ==
    \E t \in Workers :
        \/ /\ served < MaxMutations
           /\ \E w \in 1..(Len(db.wines) + 1), p \in AdjustPayloads :
                 update_wine_quantity(t, w, p.quantity_change, p.notes)
        \/ /\ served < MaxMutations
           /\ \E w \in 1..(Len(db.wines) + 1) : consume_wine(t, w, None)
        \/ /\ served < MaxMutations
           /\ \E p \in {NoPayload, [NoPayload EXCEPT !.quantity = Some(-1)]} :
                 Room(p, MaxWines + 1) /\ create_wine(t, p)
        \/ list_wines(t, NoFilter)
        \/ list_wines_page(t, NoQuery)
        \/ PageItems(t)
        \/ \E w \in 1..(Len(db.wines) + 1) : get_wine(t, w)
        \/ \E w \in 1..(Len(db.wines) + 1) : get_wine_inventory_log(t, w)
        \/ InventoryLogRows(t)
        \/ Execute(t)
        \/ Commit(t)
        \/ Respond(t)
        \/ Fail(t)

FrameSpec == FrameInit /\ [][FrameNext]_vars

(***************************************************************************)
(* The create operation with drinking-window dates and grape compositions. *)
(***************************************************************************)
\* Drinking windows of a create request: absent, in order, of one day, reversed,
\* and with one date only.
CreateWindows ==
    {<<None, None>>, <<Some(0), Some(1)>>, <<Some(1), Some(1)>>, <<Some(2), Some(1)>>,
     <<Some(1), None>>}

\* Grape compositions of a create request: absent, and 60% of "M" with 40% of "S".
CreateCompositions ==
    {None,
     Some(<<[grape_variety |-> <<77>>, percentage |-> 6000],
            [grape_variety |-> <<83>>, percentage |-> 4000]>>)}

\* Create requests with a text or a price at and beyond what the schema allows: a
\* producer of 255 characters with a country, district and subdistrict of 100 and a
\* price of 0; a producer of 256; a country, a district, a subdistrict of 101; a
\* price below 0.
CreateLimits ==
    LET TextOfLength(n) == [i \in 1..n |-> 112]
    IN  {[NoPayload EXCEPT !.producer = Some(TextOfLength(255)),
                           !.country = Some(TextOfLength(100)),
                           !.district = Some(TextOfLength(100)),
                           !.subdistrict = Some(TextOfLength(100)),
                           !.purchase_price = Some(0)],
         [NoPayload EXCEPT !.producer = Some(TextOfLength(256))],
         [NoPayload EXCEPT !.country = Some(TextOfLength(101))],
         [NoPayload EXCEPT !.district = Some(TextOfLength(101))],
         [NoPayload EXCEPT !.subdistrict = Some(TextOfLength(101))],
         [NoPayload EXCEPT !.purchase_price = Some(-1)]}

CreatePayloads ==
    {[NoPayload EXCEPT !.drink_after_date = w[1], !.drink_before_date = w[2],
                       !.grape_composition = g] :
        w \in CreateWindows, g \in CreateCompositions}
    \cup CreateLimits

CreateNext ==
    \E t \in Workers :
        \/ \E p \in CreatePayloads : Room(p, MaxWines) /\ create_wine(t, p)
        \/ Execute(t)
        \/ Commit(t)
        \/ Respond(t)
        \/ Fail(t)

CreateSpec == Init /\ [][CreateNext]_vars

(***************************************************************************)
(* The validation of grape compositions, by the first request a fresh      *)
(* service receives: validation does not look at the database.             *)
(* Percentages are decimal numbers of hundredths of a percent.             *)
(***************************************************************************)
\* grape_variety values: "M", "m ", " M", "S" and the empty string.
Varieties == {<<77>>, <<109, 32>>, <<32, 77>>, <<83>>, <<>>}

\* The percentages of a composition of at most n entries: any of 0.1%, 35.3% and
\* 64.1%, which no float holds exactly; 60% and what adds to it 94, 99.49, 99.5,
\* 100, 100.5, 100.51 and 106; 100%; one below 0 and one above 100.
Percentages(n) ==
    {p \in UNION {[1..k -> {10, 3530, 6410}] : k \in 1..n}
             \cup {<<6000, x>> : x \in {3400, 3949, 3950, 4000, 4050, 4051, 4600}}
             \cup {<<10000>>, <<-1, 10001>>, <<10001>>} :
        Len(p) <= n}

\* The compositions of at most n entries: the percentages above, of the varieties
\* "A", "B", ... in turn; and any of the varieties above, of 25% each and the rest
\* of 100% for the last.
Compositions(n) ==
    {<<>>}
    \cup {[i \in 1..Len(p) |-> [grape_variety |-> <<64 + i>>, percentage |-> p[i]]] :
             p \in Percentages(n)}
    \cup {[i \in 1..Len(v) |->
              [grape_variety |-> v[i],
               percentage |-> IF i < Len(v) THEN 2500 ELSE 10000 - 2500 * (Len(v) - 1)]] :
             v \in UNION {[1..k -> Varieties] : k \in 1..n}}

CompositionPayloads ==
    {[NoPayload EXCEPT !.grape_composition = g] :
        g \in {None} \cup {Some(c) : c \in Compositions(MaxGrapes)}}

CompositionNext ==
    \E t \in Workers :
        \/ /\ served = 0
           /\ \E p \in CompositionPayloads : Room(p, MaxWines) /\ create_wine(t, p)
        \/ Execute(t)
        \/ Commit(t)
        \/ Respond(t)
        \/ Fail(t)

CompositionSpec == Init /\ [][CompositionNext]_vars

(***************************************************************************)
(* Failures of the persistence layer.  The first database call of a        *)
(* handler (the SELECT that loads the wine, or the list's query) raises,   *)
(* e.g. sqlalchemy.exc.OperationalError; the handler's `except Exception`  *)
(* chooses the status.  The behaviours serve one request, over the wines   *)
(* earlier requests have left behind.                                      *)
(***************************************************************************)
\* raise HTTPException(status_code=..., detail=str(exc)) of `except Exception`:
\* BAD_REQUEST in list_wines_page, INTERNAL_SERVER_ERROR in the other handlers.
ExceptionStatus(op) == IF op = "list_page" THEN 400 ELSE 500

\* The handler serving `request` starts and its first database call raises.
QueryRaises(t, request) ==
    /\ req[t].pc = "idle"
    /\ reply' = Answer(t, request, ExceptionStatus(request.op),
                       [NoResponse EXCEPT !.raised = Some("OperationalError")])
    /\ UNCHANGED <<db, req, served, now>>

\* The requests whose handler starts with a query.
QueryRequests ==
    {[NoRequest EXCEPT !.op = op, !.wine_id = w] :
        op \in {"get", "inventory_log", "adjust", "consume"}, w \in WineIds}
    \cup {[NoRequest EXCEPT !.op = op] : op \in {"list", "list_page"}}

\* No request has been served yet.
NoneServed == FirstRequest /\ served = 0

FailureInit == Stored(Tables({WineRow(p) : p \in QuantityPayloads}, MaxWines))

FailureNext ==
    \E t \in Workers :
        \/ /\ NoneServed
           /\ \E r \in QueryRequests : QueryRaises(t, r)
        \/ /\ NoneServed
           /\ \E w \in WineIds, p \in AdjustPayloads :
                 update_wine_quantity(t, w, p.quantity_change, p.notes)
        \/ /\ NoneServed
           /\ \E w \in WineIds, tr \in TastingRequests : consume_wine(t, w, tr)
        \/ /\ NoneServed
           /\ \E w \in WineIds : get_wine(t, w)
        \/ /\ NoneServed
           /\ \E w \in WineIds : get_wine_inventory_log(t, w)
        \/ /\ NoneServed
           /\ list_wines(t, NoFilter)
        \/ /\ NoneServed
           /\ list_wines_page(t, NoQuery)
        \/ /\ NoneServed
           /\ \E p \in QuantityPayloads : Room(p, MaxWines) /\ create_wine(t, p)
        \/ PageItems(t)
        \/ InventoryLogRows(t)
        \/ Execute(t)
        \/ Commit(t)
        \/ Respond(t)
        \/ Fail(t)

FailureSpec == FailureInit /\ [][FailureNext]_vars

(***************************************************************************)
(* The drinking-window suggestion proxy (app/services/wine_api_service.py).*)
(* The upstream service is the environment: what the one client.get(...)   *)
(* brings back is any of UpstreamOutcomes.  A date travels as ISO text and *)
(* is a record of year, month and day once parsed.                         *)
(***************************************************************************)
\* The decimal digits of n, `width` of them.
RECURSIVE Digits(_, _)
Digits(n, width) ==
    IF width = 0 THEN <<>> ELSE Digits(n \div 10, width - 1) \o <<48 + (n % 10)>>

\* date(year, month, day).isoformat(): the text the upstream service sends.
isoformat(year, month, day) ==
    Digits(year, 4) \o <<45>> \o Digits(month, 2) \o <<45>> \o Digits(day, 2)

\* int(text) of a text of decimal digits.
RECURSIVE Number(_)
Number(text) ==
    IF text = <<>> THEN 0 ELSE 10 * Number(SubSeq(text, 1, Len(text) - 1))
                                  + (text[Len(text)] - 48)

\* The days of a month of the proleptic Gregorian calendar.
DaysInMonth(year, month) ==
    IF month = 2
    THEN IF year % 4 = 0 /\ (year % 100 # 0 \/ year % 400 = 0) THEN 29 ELSE 28
    ELSE IF month \in {4, 6, 9, 11} THEN 30 ELSE 31

\* date.fromisoformat(text): None when it raises.  It reads YYYY-MM-DD and
\* YYYYMMDD (the week-date forms are not among the model's inputs).
fromisoformat(text) ==
    LET compact == IF Len(text) = 10 /\ text[5] = 45 /\ text[8] = 45
                   THEN SubSeq(text, 1, 4) \o SubSeq(text, 6, 7) \o SubSeq(text, 9, 10)
                   ELSE text
        year == Number(SubSeq(compact, 1, 4))
        month == Number(SubSeq(compact, 5, 6))
        day == Number(SubSeq(compact, 7, 8))
    IN  IF /\ Len(compact) = 8
           /\ \A i \in 1..8 : compact[i] \in 48..57
           /\ year >= 1
           /\ month \in 1..12
           /\ day >= 1
           /\ day <= DaysInMonth(year, month)
        THEN Some([year |-> year, month |-> month, day |-> day])
        ELSE None

\* a < b on dates.
DateLess(a, b) ==
    \/ a.year < b.year
    \/ a.year = b.year /\ a.month < b.month
    \/ a.year = b.year /\ a.month = b.month /\ a.day < b.day

\* if after >= before: raise ExternalApiError
RangeRejected(after, before) == ~DateLess(after, before)

\* The configurations the handler may find in the environment, as texts of code
\* points.  The base URL is not set, empty, https://wine.example/, wine.example
\* (no scheme) or https://wine.example:port (a port that is no number); the key is
\* not set, empty, secret or cl\u00e9 (code point 233).
Configs ==
    {[base_url |-> b, api_key |-> k] :
        b \in {None, Some(<<>>), Some(<<104, 116, 116, 112, 115, 58, 47, 47, 119, 105, 110, 101, 46, 101, 120, 97, 109, 112, 108, 101, 47>>),
               Some(<<119, 105, 110, 101, 46, 101, 120, 97, 109, 112, 108, 101>>),
               Some(<<104, 116, 116, 112, 115, 58, 47, 47, 119, 105, 110, 101, 46, 101, 120, 97, 109, 112, 108, 101, 58, 112, 111, 114, 116>>)},
        k \in {None, Some(<<>>), Some(<<115, 101, 99, 114, 101, 116>>), Some(<<99, 108, 233>>)}}

\* The texts an upstream body carries for a date: three dates, a day and a month
\* that do not exist, "soon" and the empty text.
DateTexts ==
    {isoformat(2030, 1, 1), isoformat(2030, 1, 2), isoformat(2029, 12, 31),
     isoformat(2030, 2, 30), isoformat(2030, 13, 1), <<115, 111, 111, 110>>, <<>>}

\* The body of an upstream response: not JSON, a JSON array, or a JSON object
\* with some of the keys detail, drink_after_date, drink_before_date.
NoBody ==
    [json |-> "invalid", detail |-> None, drink_after_date |-> None,
     drink_before_date |-> None]

Bodies ==
    {NoBody, [NoBody EXCEPT !.json = "array"]}
    \cup {[json |-> "object", detail |-> d, drink_after_date |-> a,
            drink_before_date |-> b] :
             d \in {None, Some("quota")},
             a \in {None} \cup {Some(x) : x \in DateTexts},
             b \in {None} \cup {Some(x) : x \in DateTexts}}

\* What client.get(...) brings back: an exception or a response.  InvalidURL and
\* UnicodeEncodeError are raised while the request is built, UnsupportedProtocol
\* when it is to be sent, the others by the connection.
UpstreamOutcomes ==
    {[kind |-> k, status_code |-> 0, body |-> NoBody] :
        k \in {"InvalidURL", "UnicodeEncodeError", "UnsupportedProtocol",
               "ConnectTimeout", "ReadTimeout", "ConnectError"}}
    \cup {[kind |-> "response", status_code |-> c, body |-> b] :
             c \in {200, 204, 400, 404, 429, 500, 503}, b \in Bodies}

\* client.get(url, headers=headers, params=params) with
\* url = f"{cfg.base_url.rstrip('/')}/suggestions/drinking-window" and the header
\* Authorization: Bearer <api_key>: what it can bring back.  httpx parses the URL
\* [scheme://]host[:port][/path] and raises InvalidURL for a control character or
\* a port that is no number; it encodes the header values as ASCII and raises
\* UnicodeEncodeError for any other character; it raises UnsupportedProtocol for
\* a scheme other than http and https; then the call is made.
client_get(cfg) ==
    LET RECURSIVE rstrip(_)
        rstrip(text) == IF text # <<>> /\ text[Len(text)] = 47
                        THEN rstrip(SubSeq(text, 1, Len(text) - 1)) ELSE text
        url == rstrip(cfg.base_url[1])
                  \o <<47, 115, 117, 103, 103, 101, 115, 116, 105, 111, 110, 115, 47, 100, 114, 105, 110, 107, 105, 110, 103, 45, 119, 105, 110, 100, 111, 119>>
        \* the first index of "://" in url, 0 when there is none
        marks == {i \in 1..(Len(url) - 2) : SubSeq(url, i, i + 2) = <<58, 47, 47>>}
        mark == IF marks = {} THEN 0 ELSE CHOOSE i \in marks : \A j \in marks : i <= j
        scheme == IF mark = 0 THEN <<>> ELSE Lower(SubSeq(url, 1, mark - 1))
        rest == IF mark = 0 THEN <<>> ELSE SubSeq(url, mark + 3, Len(url))
        slashes == {i \in 1..Len(rest) : rest[i] = 47}
        authority == IF slashes = {} THEN rest
                     ELSE SubSeq(rest, 1, (CHOOSE i \in slashes : \A j \in slashes : i <= j) - 1)
        colons == {i \in 1..Len(authority) : authority[i] = 58}
        port == IF colons = {} THEN <<>>
                ELSE SubSeq(authority, (CHOOSE i \in colons : \A j \in colons : i >= j) + 1,
                            Len(authority))
        raises(kind) == {o \in UpstreamOutcomes : o.kind = kind}
    IN  IF \/ \E i \in 1..Len(url) : url[i] < 32 \/ url[i] = 127
           \/ \E i \in 1..Len(port) : port[i] \notin 48..57
        THEN raises("InvalidURL")
        ELSE IF \E i \in 1..Len(cfg.api_key[1]) : cfg.api_key[1][i] > 127
        THEN raises("UnicodeEncodeError")
        ELSE IF scheme \notin {<<104, 116, 116, 112>>, <<104, 116, 116, 112, 115>>}
        THEN raises("UnsupportedProtocol")
        ELSE {o \in UpstreamOutcomes :
                 o.kind \notin {"InvalidURL", "UnicodeEncodeError", "UnsupportedProtocol"}}

\* fetch_drinking_window_suggestion after client.get(...): the response record of
\* the model, with raised set to the exception the function raises:
\* ExternalApiError, or the exception of client.get that is no httpx.HTTPError
\* and so passes the two except clauses.
SuggestionResult(outcome) ==
    LET failed == [NoResponse EXCEPT !.raised = Some("ExternalApiError"),
                                     !.upstream = Some(outcome)]
        body == outcome.body
    IN  IF outcome.kind = "ConnectTimeout" THEN failed
        ELSE IF outcome.kind \in {"ReadTimeout", "ConnectError", "UnsupportedProtocol"}
        THEN failed
        ELSE IF outcome.kind # "response"
        THEN [NoResponse EXCEPT !.raised = Some(outcome.kind), !.upstream = Some(outcome)]
        ELSE IF outcome.status_code = 429 THEN failed
        ELSE IF outcome.status_code >= 500 THEN failed
        ELSE IF outcome.status_code >= 400 THEN failed
        ELSE IF \/ body.json # "object"
                \/ body.drink_after_date = None
                \/ body.drink_before_date = None
             THEN failed
        ELSE IF \/ fromisoformat(body.drink_after_date[1]) = None
                \/ fromisoformat(body.drink_before_date[1]) = None
             THEN failed
        ELSE IF RangeRejected(fromisoformat(body.drink_after_date[1])[1],
                              fromisoformat(body.drink_before_date[1])[1])
             THEN failed
        ELSE [NoResponse EXCEPT
                 !.suggestion =
                     Some([drink_after_date |-> fromisoformat(body.drink_after_date[1])[1],
                           drink_before_date |-> fromisoformat(body.drink_before_date[1])[1]]),
                 !.upstream = Some(outcome)]

\* The status of the answer: drinking_window_suggestions turns ExternalApiError
\* into 502 and catches nothing else, so any other exception is answered 500 by
\* the server; the function called directly carries no HTTP status.
SuggestionStatus(op, response) ==
    IF op # "suggest" THEN 0
    ELSE IF response.raised = Some("ExternalApiError") THEN 502
    ELSE IF response.raised # None THEN 500
    ELSE 200

\* The function up to client.get(...): without base URL or key it raises at once,
\* otherwise the one upstream call is under way.
StartSuggestion(t, request) ==
    /\ req[t].pc = "idle"
    /\ UNCHANGED <<db, served, now>>
    /\ IF ~Truthy(request.cfg.base_url) \/ ~Truthy(request.cfg.api_key)
       THEN /\ reply' = Answer(t, request,
                               SuggestionStatus(request.op,
                                   [NoResponse EXCEPT !.raised = Some("ExternalApiError")]),
                               [NoResponse EXCEPT !.raised = Some("ExternalApiError")])
            /\ UNCHANGED req
       ELSE /\ req' = [req EXCEPT ![t] = [IdleRequest EXCEPT !.pc = "upstream",
                                                             !.request = request]]
            /\ reply' = NoReply

\* fetch_drinking_window_suggestion(wine_type, vintage), called directly.
fetch_drinking_window_suggestion(t, wine_type, vintage, cfg) ==
    StartSuggestion(t, [NoRequest EXCEPT !.op = "fetch_suggestion",
                                         !.query.filter.wine_type = Some(wine_type),
                                         !.query.filter.vintage = Some(vintage),
                                         !.cfg = cfg])

\* client.get(...) returns or raises, and the function ends.
UpstreamAnswers(t, outcome) ==
    /\ req[t].pc = "upstream"
    /\ outcome \in client_get(req[t].request.cfg)
    /\ reply' = Answer(t, req[t].request,
                       SuggestionStatus(req[t].request.op, SuggestionResult(outcome)),
                       SuggestionResult(outcome))
    /\ req' = [req EXCEPT ![t] = IdleRequest]
    /\ UNCHANGED <<db, served, now>>

\* SupportedWineType: Red, White, Ros\u00e9 (code point 233), Sparkling, Dessert, Fortified
SupportedWineType ==
    {<<82, 101, 100>>, <<87, 104, 105, 116, 101>>, <<82, 111, 115, 233>>,
     <<83, 112, 97, 114, 107, 108, 105, 110, 103>>,
     <<68, 101, 115, 115, 101, 114, 116>>,
     <<70, 111, 114, 116, 105, 102, 105, 101, 100>>}

SuggestionNext ==
    \E t \in Workers :
        \/ /\ FirstRequest
           /\ \E wine_type \in {<<82, 101, 100>>, <<82, 111, 115, 233>>}, cfg \in Configs :
                 fetch_drinking_window_suggestion(t, wine_type, 2020, cfg)
        \/ \E outcome \in UpstreamOutcomes : UpstreamAnswers(t, outcome)

SuggestionSpec == Init /\ [][SuggestionNext]_vars

(***************************************************************************)
(* The page count of list_wines_page, for counts larger than the tables of *)
(* PageSpec: the arithmetic of the handler's last lines, applied to a      *)
(* total_items and a page_size the declared constraints allow.             *)
(***************************************************************************)
\* total_pages = ...; WineListPageResponse(..., total_items=total_items,
\* total_pages=total_pages)
total_pages(t, total_items, page_size) ==
    ListAnswer(t, [NoRequest EXCEPT !.op = "total_pages", !.query.page_size = page_size],
               0,
               [NoResponse EXCEPT
                   !.page = Some([items |-> <<>>, page |-> 1, page_size |-> page_size,
                                  total_items |-> total_items,
                                  total_pages |-> TotalPages(total_items, page_size)])])

TotalPagesNext ==
    \E t \in Workers, total_items \in 0..MaxTotalItems, page_size \in 1..100 :
        /\ FirstRequest
        /\ total_pages(t, total_items, page_size)

TotalPagesSpec == Init /\ [][TotalPagesNext]_vars

(***************************************************************************)
(* The router.  A path is the sequence of its segments, "/" the one empty  *)
(* segment; the routes are tried in the order they were registered, and    *)
(* the first one whose path and method match takes the request.            *)
(***************************************************************************)
\* The routes of the router, in the order of their decorators.  A segment of a
\* route's path is fixed text or a parameter ({wine_id}); every path begins with
\* "api", "wines": APIRouter(prefix="/api/wines").
wines_router ==
    LET Literal(text) == [param |-> FALSE, text |-> text]
        Param(name) == [param |-> TRUE, text |-> name]
        ApiWines == <<Literal(<<97, 112, 105>>), Literal(<<119, 105, 110, 101, 115>>)>>
        WineIdParam == Param(<<119, 105, 110, 101, 95, 105, 100>>)
    IN  <<[methods |-> {"GET"}, path |-> ApiWines, endpoint |-> "list_wines"],
          [methods |-> {"GET"}, path |-> ApiWines \o <<Literal(<<112, 97, 103, 101>>)>>,
           endpoint |-> "list_wines_page"],
          [methods |-> {"GET"}, path |-> ApiWines \o <<WineIdParam>>, endpoint |-> "get_wine"],
          [methods |-> {"PATCH"},
           path |-> ApiWines \o <<WineIdParam, Literal(<<113, 117, 97, 110, 116, 105, 116, 121>>)>>,
           endpoint |-> "update_wine_quantity"],
          [methods |-> {"GET"},
           path |-> ApiWines \o <<WineIdParam, Literal(<<105, 110, 118, 101, 110, 116, 111, 114, 121, 45, 108, 111, 103>>)>>,
           endpoint |-> "get_wine_inventory_log"],
          [methods |-> {"POST"},
           path |-> ApiWines \o <<WineIdParam, Literal(<<99, 111, 110, 115, 117, 109, 101>>)>>,
           endpoint |-> "consume_wine"],
          [methods |-> {"GET"},
           path |-> ApiWines \o <<Literal(<<100, 114, 105, 110, 107, 105, 110, 103, 45, 119, 105, 110, 100, 111, 119, 45, 115, 117, 103, 103, 101, 115, 116, 105, 111, 110, 115>>)>>,
           endpoint |-> "drinking_window_suggestions"],
          [methods |-> {"POST"}, path |-> ApiWines, endpoint |-> "create_wine"]>>

\* The routes of the application, in the order of their registration: the
\* routes FastAPI(...) registers itself (/openapi.json, /docs,
\* /docs/oauth2-redirect, /redoc; plain routes, which take HEAD with GET), then
\* @app.get("/"), @app.get("/health"), then the router's routes.
Routes ==
    LET Page(text) == [param |-> FALSE, text |-> text]
        docs == Page(<<100, 111, 99, 115>>)
    IN  <<[methods |-> {"GET", "HEAD"},
           path |-> <<Page(<<111, 112, 101, 110, 97, 112, 105, 46, 106, 115, 111, 110>>)>>,
           endpoint |-> "openapi"],
          [methods |-> {"GET", "HEAD"}, path |-> <<docs>>, endpoint |-> "swagger_ui_html"],
          [methods |-> {"GET", "HEAD"},
           path |-> <<docs, Page(<<111, 97, 117, 116, 104, 50, 45, 114, 101, 100, 105, 114, 101, 99, 116>>)>>,
           endpoint |-> "swagger_ui_redirect"],
          [methods |-> {"GET", "HEAD"}, path |-> <<Page(<<114, 101, 100, 111, 99>>)>>,
           endpoint |-> "redoc_html"],
          [methods |-> {"GET"}, path |-> <<Page(<<>>)>>, endpoint |-> "root"],
          [methods |-> {"GET"}, path |-> <<Page(<<104, 101, 97, 108, 116, 104>>)>>,
           endpoint |-> "health"]>>
        \o wines_router

\* The route's path matches: a parameter takes any non-empty segment (the
\* annotation `wine_id: int` is checked after the route is chosen).
PathMatches(pattern, path) ==
    /\ Len(pattern) = Len(path)
    /\ \A i \in 1..Len(pattern) :
          IF pattern[i].param THEN path[i] # <<>> ELSE path[i] = pattern[i].text

\* The endpoint that takes the request: the first route that matches path and
\* method; 405 when routes match the path only.  When no route matches the
\* path, redirect_slashes (on by default) tries the path with its trailing
\* slashes stripped or, when it has none, with one appended, and answers a
\* redirect when any route matches that path; 404 otherwise.  A trailing slash
\* is an empty last segment.
Dispatch(method, path) ==
    LET full == {i \in 1..Len(Routes) :
                    PathMatches(Routes[i].path, path) /\ method \in Routes[i].methods}
        partial == {i \in 1..Len(Routes) : PathMatches(Routes[i].path, path)}
        RECURSIVE rstrip(_)
        rstrip(p) == IF p # <<>> /\ p[Len(p)] = <<>>
                     THEN rstrip(SubSeq(p, 1, Len(p) - 1)) ELSE p
        redirect_path == IF path # <<>> /\ path[Len(path)] = <<>> THEN rstrip(path)
                         ELSE Append(path, <<>>)
    IN  IF full # {}
        THEN Routes[CHOOSE i \in full : \A j \in full : i <= j].endpoint
        ELSE IF partial # {} THEN "method_not_allowed"
        ELSE IF path # <<<<>>>>
                /\ \E i \in 1..Len(Routes) : PathMatches(Routes[i].path, redirect_path)
        THEN "redirect"
        ELSE "not_found"

\* The conversion of a path parameter to int succeeds (the model's segments are
\* texts of decimal digits or texts that are no numbers).
IsInt(text) == text # <<>> /\ \A i \in 1..Len(text) : text[i] \in 48..57

\* GET /api/wines/drinking-window-suggestions, the handler: wine_type and vintage
\* are validated, then the proxy is called.  path is empty when the handler is
\* called directly.
drinking_window_suggestions(t, path, wine_type, vintage, cfg) ==
    LET request == [NoRequest EXCEPT !.op = "suggest", !.path = path,
                                     !.query.filter.wine_type = Some(wine_type),
                                     !.query.filter.vintage = Some(vintage),
                                     !.cfg = cfg]
    IN  IF wine_type \notin SupportedWineType \/ vintage \notin 1800..2100
        THEN ListAnswer(t, request, 422, NoResponse)
        ELSE StartSuggestion(t, request)

\* A GET request as the application serves it, with the query parameters wine_type
\* and vintage, each given or left out: the list handlers take them as optional
\* filters, the suggestions handler requires both (Query(...)), the handlers of a
\* wine's routes ignore them, as do root, health and the documentation pages,
\* which answer 200 (their bodies are not part of the state).
GET(t, path, wine_type, vintage, cfg) ==
    LET endpoint == Dispatch("GET", path)
        unprocessable(op) ==
            ListAnswer(t, [NoRequest EXCEPT !.op = op, !.path = path,
                                            !.query.filter.wine_type = wine_type,
                                            !.query.filter.vintage = vintage],
                       422, NoResponse)
    IN  CASE endpoint = "list_wines" ->
                list_wines(t, [NoFilter EXCEPT !.wine_type = wine_type,
                                               !.vintage = vintage])
          [] endpoint = "list_wines_page" ->
                list_wines_page(t, [NoQuery EXCEPT !.filter.wine_type = wine_type,
                                                   !.filter.vintage = vintage])
          [] endpoint = "get_wine" ->
                IF IsInt(path[3]) THEN get_wine(t, Number(path[3]))
                ELSE unprocessable("get")
          [] endpoint = "get_wine_inventory_log" ->
                IF IsInt(path[3]) THEN get_wine_inventory_log(t, Number(path[3]))
                ELSE unprocessable("inventory_log")
          [] endpoint = "drinking_window_suggestions" ->
                IF wine_type = None \/ vintage = None THEN unprocessable("suggest")
                ELSE drinking_window_suggestions(t, path, wine_type[1], vintage[1], cfg)
          [] endpoint \in {"root", "health", "openapi", "swagger_ui_html",
                           "swagger_ui_redirect", "redoc_html"} ->
                ListAnswer(t, [NoRequest EXCEPT !.op = endpoint, !.path = path],
                           200, NoResponse)
          [] endpoint = "method_not_allowed" ->
                ListAnswer(t, [NoRequest EXCEPT !.path = path], 405, NoResponse)
          [] endpoint = "redirect" ->
                ListAnswer(t, [NoRequest EXCEPT !.path = path], 307, NoResponse)
          [] OTHER ->
                ListAnswer(t, [NoRequest EXCEPT !.path = path], 404, NoResponse)

\* /api/wines/drinking-window-suggestions
SuggestionsPath == <<<<97, 112, 105>>, <<119, 105, 110, 101, 115>>, <<100, 114, 105, 110, 107, 105, 110, 103, 45, 119, 105, 110, 100, 111, 119, 45, 115, 117, 103, 103, 101, 115, 116, 105, 111, 110, 115>>>>

\* The paths requested: /api/wines, /api/wines/page, /api/wines/1, /api/wines/2,
\* /api/wines/1/inventory-log, /api/wines/1/quantity, /api/wines/1/notes and
\* /api/wines/drinking-window-suggestions; and with a trailing slash /api/wines/,
\* /api/wines/1/, /api/wines/1/notes/ and /api/wines/drinking-window-suggestions/;
\* and outside the router /, /health, /health/, /docs, /docs/, /openapi.json,
\* /docs/oauth2-redirect, /redoc, /api and /api/.
Paths ==
    LET wines == <<<<97, 112, 105>>, <<119, 105, 110, 101, 115>>>>
        notes == wines \o <<<<49>>, <<110, 111, 116, 101, 115>>>>
    IN  {wines,
         wines \o <<<<112, 97, 103, 101>>>>,
         wines \o <<<<49>>>>,
         wines \o <<<<50>>>>,
         wines \o <<<<49>>, <<105, 110, 118, 101, 110, 116, 111, 114, 121, 45, 108, 111, 103>>>>,
         wines \o <<<<49>>, <<113, 117, 97, 110, 116, 105, 116, 121>>>>,
         notes,
         SuggestionsPath,
         wines \o <<<<>>>>,
         wines \o <<<<49>>, <<>>>>,
         notes \o <<<<>>>>,
         SuggestionsPath \o <<<<>>>>,
         <<<<>>>>,
         <<<<104, 101, 97, 108, 116, 104>>>>,
         <<<<104, 101, 97, 108, 116, 104>>, <<>>>>,
         <<<<100, 111, 99, 115>>>>,
         <<<<100, 111, 99, 115>>, <<>>>>,
         <<<<111, 112, 101, 110, 97, 112, 105, 46, 106, 115, 111, 110>>>>,
         <<<<100, 111, 99, 115>>, <<111, 97, 117, 116, 104, 50, 45, 114, 101, 100, 105, 114, 101, 99, 116>>>>,
         <<<<114, 101, 100, 111, 99>>>>,
         <<<<97, 112, 105>>>>,
         <<<<97, 112, 105>>, <<>>>>}

RouterInit == Stored(Tables({WineRow(p) : p \in QuantityPayloads}, MaxWines))

\* The wine_type and vintage parameters requested are Red and "Rose" (which is no
\* SupportedWineType), 2020 and 1799; the environment has the external API
\* configured (https://wine.example/, secret), or not.
RouterNext ==
    LET SuggestionTypes == {<<82, 101, 100>>, <<82, 111, 115, 101>>}
        SuggestionVintages == {2020, 1799}
        RouterConfigs ==
            {NoConfig,
             [base_url |-> Some(<<104, 116, 116, 112, 115, 58, 47, 47, 119, 105, 110, 101, 46, 101, 120, 97, 109, 112, 108, 101, 47>>),
              api_key |-> Some(<<115, 101, 99, 114, 101, 116>>)]}
    IN  \E t \in Workers :
            \/ /\ FirstRequest
               /\ \E path \in Paths,
                     wine_type \in {None} \cup {Some(w) : w \in SuggestionTypes},
                     vintage \in {None} \cup {Some(v) : v \in SuggestionVintages},
                     cfg \in RouterConfigs :
                     GET(t, path, wine_type, vintage, cfg)
            \/ /\ FirstRequest
               /\ \E wine_type \in SuggestionTypes, vintage \in SuggestionVintages,
                     cfg \in RouterConfigs :
                     drinking_window_suggestions(t, <<>>, wine_type, vintage, cfg)
            \/ PageItems(t)
            \/ InventoryLogRows(t)
            \/ \E outcome \in UpstreamOutcomes : UpstreamAnswers(t, outcome)

RouterSpec == RouterInit /\ [][RouterNext]_vars

(***************************************************************************)
(* Steps, as the properties below see them.                                *)
(***************************************************************************)
\* Worker t starts a handler in this step.
Starts(t) ==
    /\ req[t].pc = "idle"
    /\ (req'[t].pc # "idle" \/ reply'.worker = t)

\* The request the handler started in this step serves.
StartedRequest(t) == IF req'[t].pc # "idle" THEN req'[t].request ELSE reply'.request

\* The handler started in this step is answered at once with `status`, having
\* changed nothing and with nothing left to write.
RejectedWith(t, status) ==
    /\ reply'.worker = t
    /\ reply'.status = status
    /\ req' = req
    /\ db' = db

\* Worker t's COMMIT succeeds in this step.
Commits(t) == req[t].pc = "pending" /\ req'[t].pc = "committed"

\* Every wine but w is as it was.
OtherWinesUnchanged(w) ==
    /\ Len(db'.wines) = Len(db.wines)
    /\ \A v \in 1..Len(db.wines) : v # w => db'.wines[v] = db.wines[v]

(***************************************************************************)
(* C1.  An adjustment by d of an existing wine whose current quantity is q *)
(* (null as 0), with q + d >= 0, is accepted, and its commit sets the      *)
(* stored quantity to q + d and appends exactly one log row:               *)
(* manual_adjustment, quantity_change d, new_quantity q + d, the supplied  *)
(* notes.  The current quantity is read either way: the quantity the       *)
(* handler loaded, or the one the wine has when the handler commits.       *)
(***************************************************************************)
C1_AdjustApplies ==
    [][\A t \in Workers :
        /\ (/\ Starts(t)
            /\ StartedRequest(t).op = "adjust"
            /\ WineExists(db, StartedRequest(t).wine_id)
            /\ OrZero(db.wines[StartedRequest(t).wine_id].quantity)
                  + StartedRequest(t).quantity_change >= 0)
           => req'[t].pc = "pending"
        /\ (/\ Commits(t)
            /\ req[t].request.op = "adjust")
           => LET w == req[t].request.wine_id
                  d == req[t].request.quantity_change
              IN  \E q \in {req[t].current_quantity, OrZero(db.wines[w].quantity)} :
                      /\ db'.wines[w].quantity = Some(q + d)
                      /\ OtherWinesUnchanged(w)
                      /\ db'.inventory_logs =
                            Append(db.inventory_logs,
                                   [wine_id |-> w, change_type |-> "manual_adjustment",
                                    quantity_change |-> d, new_quantity |-> q + d,
                                    notes |-> req[t].request.notes,
                                    timestamp |-> req[t].timestamp])
                      /\ db'.tasting_notes = db.tasting_notes
      ]_vars

(***************************************************************************)
(* C2.  An adjustment that would make the quantity negative (quantity,     *)
(* null as 0, plus quantity_change < 0) is answered 400 and leaves the     *)
(* wine's quantity and the inventory log as they were.                     *)
(***************************************************************************)
C2_NegativeRejected ==
    [][\A t \in Workers :
        (/\ Starts(t)
         /\ StartedRequest(t).op = "adjust"
         /\ WineExists(db, StartedRequest(t).wine_id)
         /\ OrZero(db.wines[StartedRequest(t).wine_id].quantity)
               + StartedRequest(t).quantity_change < 0)
        => RejectedWith(t, 400)
      ]_vars

\* A wine with a log history has had a further adjustment refused.
C2_Witness ==
    /\ reply.status = 400
    /\ reply.request.op = "adjust"
    /\ reply.request.quantity_change = -1
    /\ Len(db.inventory_logs) >= 1
    /\ db.wines[reply.request.wine_id].quantity = Some(0)

(***************************************************************************)
(* C3.  In every reachable state every wine's stored quantity is null or   *)
(* >= 0 and every inventory log row's new_quantity is >= 0.                *)
(***************************************************************************)
C3_NonNegative ==
    /\ \A w \in 1..Len(db.wines) :
          db.wines[w].quantity = None \/ db.wines[w].quantity[1] >= 0
    /\ \A i \in 1..Len(db.inventory_logs) : db.inventory_logs[i].new_quantity >= 0

\* A wine has been brought down to 0 by a mutation while another one was refused.
C3_Witness ==
    /\ reply.status = 400
    /\ \E i \in 1..Len(db.inventory_logs) :
          /\ db.inventory_logs[i].new_quantity = 0
          /\ db.inventory_logs[i].quantity_change = -1
          /\ db.wines[db.inventory_logs[i].wine_id].quantity = Some(0)

(***************************************************************************)
(* C4.  After every successful adjust or consume, the new_quantity of the  *)
(* log row it created equals the wine's stored quantity right after the    *)
(* operation, and equals the wine's quantity right before the operation    *)
(* plus the row's quantity_change.  (Refuted: see C5.)                     *)
(***************************************************************************)
C4_LogRowMatchesQuantity ==
    [][\A t \in Workers :
        (Commits(t) /\ req[t].request.op \in {"adjust", "consume"})
        => LET w == req[t].request.wine_id
               row == db'.inventory_logs[Len(db'.inventory_logs)]
           IN  /\ Len(db'.inventory_logs) = Len(db.inventory_logs) + 1
               /\ row.wine_id = w
               /\ db'.wines[w].quantity = Some(row.new_quantity)
               /\ row.new_quantity = OrZero(db.wines[w].quantity) + row.quantity_change
      ]_vars

(***************************************************************************)
(* C5.  Two concurrent adjustments of one wine are serialized: they never  *)
(* both compute new_quantity from the same stale quantity, so when both    *)
(* succeed the second's resulting quantity is the first's plus its own     *)
(* change, as when one is applied after the other.  (Refuted.)             *)
(***************************************************************************)
C5_AdjustmentsSerialized ==
    \A i, j \in 1..Len(db.inventory_logs) :
        (/\ i < j
         /\ db.inventory_logs[i].wine_id = db.inventory_logs[j].wine_id
         /\ db.inventory_logs[i].change_type = "manual_adjustment"
         /\ db.inventory_logs[j].change_type = "manual_adjustment"
         /\ \A k \in (i + 1)..(j - 1) :
               db.inventory_logs[k].wine_id # db.inventory_logs[i].wine_id)
        => db.inventory_logs[j].new_quantity =
              db.inventory_logs[i].new_quantity + db.inventory_logs[j].quantity_change

(***************************************************************************)
(* C6.  The quantity update, the log row and the tasting note of one       *)
(* operation become visible together: no step changes a wine's stored      *)
(* quantity without appending the log row that carries that quantity, and  *)
(* no step appends a log row without the wine holding the row's quantity   *)
(* (a change of 0 writes no quantity), or a tasting note without its       *)
(* consume row.                                                            *)
(***************************************************************************)
C6_CommitUnit ==
    [][LET logs == db.inventory_logs
           logs2 == db'.inventory_logs
           appended == logs2 = Append(logs, logs2[Len(logs2)])
       IN  /\ \A w \in 1..Len(db.wines) :
                db'.wines[w].quantity # db.wines[w].quantity
                => /\ Len(logs2) = Len(logs) + 1
                   /\ appended
                   /\ logs2[Len(logs2)].wine_id = w
                   /\ Some(logs2[Len(logs2)].new_quantity) = db'.wines[w].quantity
           /\ logs2 # logs
                => /\ Len(logs2) = Len(logs) + 1
                   /\ appended
                   /\ \/ db'.wines[logs2[Len(logs2)].wine_id].quantity
                            = Some(logs2[Len(logs2)].new_quantity)
                      \/ /\ logs2[Len(logs2)].quantity_change = 0
                         /\ db'.wines = db.wines
           /\ db'.tasting_notes # db.tasting_notes
                => /\ Len(db'.tasting_notes) = Len(db.tasting_notes) + 1
                   /\ SubSeq(db'.tasting_notes, 1, Len(db.tasting_notes)) = db.tasting_notes
                   /\ Len(logs2) = Len(logs) + 1
                   /\ logs2[Len(logs2)].change_type = "consume"
                   /\ logs2[Len(logs2)].wine_id
                         = db'.tasting_notes[Len(db'.tasting_notes)].wine_id
      ]_vars

\* A consume with a tasting note has committed while another request is in
\* flight: quantity, log row and note are there together.
C6_Witness ==
    \E t, u \in Workers :
        /\ req[t].pc = "committed"
        /\ req[t].request.op = "consume"
        /\ req[u].pc = "pending"
        /\ Len(db.tasting_notes) = 1
        /\ Len(db.inventory_logs) = 1
        /\ db.wines[req[t].request.wine_id].quantity = Some(db.inventory_logs[1].new_quantity)

(***************************************************************************)
(* C7.  Adjust and consume are all-or-nothing: while a handler flushes,    *)
(* and when one of its writes or its commit fails, its steps leave the     *)
(* wine's quantity, the log and the tasting notes as they were; the        *)
(* failure is answered 500.                                                *)
(***************************************************************************)
C7_AllOrNothing ==
    [][\A t \in Workers :
        (req[t].pc = "pending" /\ req[t].request.op \in {"adjust", "consume"})
        => /\ (req'[t].pc = "pending" /\ req'[t] # req[t] => db' = db)
           /\ (req'[t].pc = "idle" =>
                  /\ db' = db
                  /\ reply'.worker = t
                  /\ reply'.status = 500)
      ]_vars

\* A consume with a tasting note has failed and nothing of it is stored.
C7_Witness ==
    /\ reply.status = 500
    /\ reply.request.op = "consume"
    /\ HasTasting(reply.request.tasting_request)
    /\ Len(db.wines) = 1
    /\ db.wines[1].quantity = Some(1)
    /\ db.inventory_logs = <<>>
    /\ db.tasting_notes = <<>>

(***************************************************************************)
(* C8.  A consume of an existing wine whose current quantity q is >= 1 is  *)
(* accepted; its commit decrements the stored quantity by exactly 1 and    *)
(* appends exactly one log row: consume, quantity_change -1, new_quantity  *)
(* q - 1, notes "Bottle consumed"; the response carries the wine as stored *)
(* and that log row.  For the row, the current quantity is read either     *)
(* way: the quantity the handler loaded, or the one the wine has when the  *)
(* handler commits.                                                        *)
(***************************************************************************)
C8_ConsumeApplies ==
    [][\A t \in Workers :
        /\ (/\ Starts(t)
            /\ StartedRequest(t).op = "consume"
            /\ WineExists(db, StartedRequest(t).wine_id)
            /\ OrZero(db.wines[StartedRequest(t).wine_id].quantity) >= 1)
           => req'[t].pc = "pending"
        /\ (/\ Commits(t)
            /\ req[t].request.op = "consume")
           => LET w == req[t].request.wine_id
                  stored == OrZero(db.wines[w].quantity)
              IN  /\ db'.wines[w].quantity = Some(stored - 1)
                  /\ OtherWinesUnchanged(w)
                  /\ \E q \in {req[t].current_quantity, stored} :
                        db'.inventory_logs =
                            Append(db.inventory_logs,
                                   [wine_id |-> w, change_type |-> "consume",
                                    quantity_change |-> -1, new_quantity |-> q - 1,
                                    notes |-> Some("Bottle consumed"),
                                    timestamp |-> req[t].timestamp])
        /\ (/\ req[t].pc = "committed"
            /\ req[t].request.op = "consume"
            /\ reply'.worker = t
            /\ reply'.status = 200)
           => /\ reply'.response.wine_quantity = db.wines[req[t].request.wine_id].quantity
              /\ reply'.response.inventory_log =
                    Some([wine_id |-> req[t].request.wine_id, change_type |-> "consume",
                          quantity_change |-> -1,
                          new_quantity |-> req[t].current_quantity - 1,
                          notes |-> Some("Bottle consumed"),
                          timestamp |-> req[t].timestamp])
      ]_vars

(***************************************************************************)
(* C9.  A consume of a wine whose quantity is 0 or null is answered 400    *)
(* and creates no log row, no tasting note and no quantity change; so once *)
(* consumes have brought a wine to 0, every further consume is refused     *)
(* until the quantity is raised again.                                     *)
(***************************************************************************)
C9_EmptyNotConsumed ==
    [][\A t \in Workers :
        (/\ Starts(t)
         /\ StartedRequest(t).op = "consume"
         /\ WineExists(db, StartedRequest(t).wine_id)
         /\ db.wines[StartedRequest(t).wine_id].quantity \in {None, Some(0)})
        => RejectedWith(t, 400)
      ]_vars

\* A wine brought to 0 by a consume has had a further consume refused.
C9_Witness ==
    /\ reply.status = 400
    /\ reply.request.op = "consume"
    /\ db.wines[reply.request.wine_id].quantity = Some(0)
    /\ Len(db.inventory_logs) = 1
    /\ db.inventory_logs[1].change_type = "consume"
    /\ db.inventory_logs[1].wine_id = reply.request.wine_id

(***************************************************************************)
(* C10.  A tasting note is created only by the commit of a consume, and a  *)
(* consume creates one (user_id 1, the supplied rating and notes) exactly  *)
(* when its payload carries a rating or non-empty notes; otherwise none is *)
(* created and the response's tasting_note is null.                        *)
(***************************************************************************)
CarriesTasting(p) ==
    /\ p # None
    /\ \/ p[1].rating # None
       \/ (p[1].notes # None /\ p[1].notes # Some(""))

C10_TastingNoteIffSupplied ==
    [][/\ db'.tasting_notes # db.tasting_notes
          => \E t \in Workers :
                /\ Commits(t)
                /\ req[t].request.op = "consume"
                /\ CarriesTasting(req[t].request.tasting_request)
       /\ \A t \in Workers :
            /\ (Commits(t) /\ req[t].request.op = "consume")
               => db'.tasting_notes =
                     IF CarriesTasting(req[t].request.tasting_request)
                     THEN Append(db.tasting_notes,
                                 [wine_id |-> req[t].request.wine_id, user_id |-> 1,
                                  rating |-> req[t].request.tasting_request[1].rating,
                                  notes |-> req[t].request.tasting_request[1].notes])
                     ELSE db.tasting_notes
            /\ (/\ req[t].pc = "committed"
                /\ req[t].request.op = "consume"
                /\ reply'.worker = t
                /\ reply'.status = 200)
               => reply'.response.tasting_note =
                     IF CarriesTasting(req[t].request.tasting_request)
                     THEN Some([wine_id |-> req[t].request.wine_id, user_id |-> 1,
                                rating |-> req[t].request.tasting_request[1].rating,
                                notes |-> req[t].request.tasting_request[1].notes])
                     ELSE None
      ]_vars

\* A consume whose payload has no rating and empty notes has succeeded without a
\* tasting note.
C10_Witness ==
    /\ reply.status = 200
    /\ reply.request.op = "consume"
    /\ reply.request.tasting_request = Some([rating |-> None, notes |-> Some("")])
    /\ reply.response.tasting_note = None
    /\ Len(db.inventory_logs) = 1
    /\ db.tasting_notes = <<>>

(***************************************************************************)
(* C11.  Get-one, adjust-quantity, consume and inventory-history on a wine *)
(* identity that does not exist are each answered 404 (not 400, not 500)   *)
(* in the step that starts them, and change nothing in the tables nor in   *)
(* any session.                                                            *)
(***************************************************************************)
C11_AbsentWineNotFound ==
    [][\A t \in Workers :
        (/\ Starts(t)
         /\ StartedRequest(t).op \in {"get", "adjust", "consume", "inventory_log"}
         /\ ~WineExists(db, StartedRequest(t).wine_id))
        => /\ RejectedWith(t, 404)
           /\ reply'.status \notin {400, 500}
           /\ reply'.response = NoResponse
      ]_vars

\* The inventory history of an absent wine has been asked for, in a database that
\* holds a wine with a log row: the answer is 404.
C11_Witness ==
    /\ reply.status = 404
    /\ reply.request.op = "inventory_log"
    /\ ~WineExists(db, reply.request.wine_id)
    /\ Len(db.wines) >= 1
    /\ Len(db.inventory_logs) >= 1

(***************************************************************************)
(* C12.  For every filter, one that supplies drinking_window_status        *)
(* included, the total_items of the paginated list is the number of wines  *)
(* the list query returns without offset and limit.  (Refuted: the count   *)
(* statement is filtered without the drinking_window_status.)              *)
(***************************************************************************)
C12_CountMatchesList ==
    (reply.request.op = "list_page" /\ reply.status = 200)
    => reply.response.page[1].total_items
          = Cardinality(Filtered(db, reply.request.query.filter))

(***************************************************************************)
(* C13.  For any filter, sort and page size, over unchanged data: the      *)
(* items of pages 1..total_pages, concatenated in page order, are the      *)
(* filtered wines, each once, ordered by the requested sort key and        *)
(* direction; and page p holds the elements at offsets (p-1)*page_size ..  *)
(* p*page_size-1 of that sequence.  (The library's apply_pagination cuts   *)
(* the same offsets out of the table.)                                     *)
(***************************************************************************)
\* The value of the column sort_by names, in row i.
ColumnOf(i, sort_by) ==
    IF sort_by = "id" THEN Some(i)
    ELSE IF sort_by = "name" THEN Some(db.wines[i].name)
    ELSE IF sort_by = "producer" THEN db.wines[i].producer
    ELSE IF sort_by = "vintage" THEN db.wines[i].vintage
    ELSE db.wines[i].type

\* Rows a, b may follow each other in a result sorted by sort_by in sort_order.
InOrder(a, b, sort_by, sort_order) ==
    IF sort_order = "desc"
    THEN ~KeyLess(sort_by, ColumnOf(a, sort_by), ColumnOf(b, sort_by))
    ELSE ~KeyLess(sort_by, ColumnOf(b, sort_by), ColumnOf(a, sort_by))

\* The items of pages 1..n of query q, concatenated.
RECURSIVE PagesUpTo(_, _)
PagesUpTo(q, n) ==
    IF n = 0 THEN <<>>
    ELSE PagesUpTo(q, n - 1) \o stmt(db, [q EXCEPT !.page = n])

\* The elements of `rows` at offsets from .. to (counted from 0).
AtOffsets(rows, from, to) ==
    [k \in 1..((IF to + 1 < Len(rows) THEN to + 1 ELSE Len(rows)) - from) |-> rows[from + k]]

C13_PagesReproduceResult ==
    /\ (reply.request.op = "list_page" /\ reply.status = 200)
       => LET q == reply.request.query
              page == reply.response.page[1]
              all == PagesUpTo(q, page.total_pages)
          IN  /\ {all[k] : k \in 1..Len(all)}
                    = {i \in 1..Len(db.wines) : apply_filters(db.wines[i], q.filter)}
              /\ \A k, l \in 1..Len(all) : k # l => all[k] # all[l]
              /\ \A k \in 1..(Len(all) - 1) :
                    InOrder(all[k], all[k + 1], q.sort_by, q.sort_order)
              /\ page.items
                    = AtOffsets(all, (q.page - 1) * q.page_size, q.page * q.page_size - 1)
    /\ reply.request.op = "apply_pagination"
       => LET q == reply.request.query
          IN  reply.response.wines
                 = AtOffsets([i \in 1..Len(db.wines) |-> i],
                             (q.page - 1) * q.page_size, q.page * q.page_size - 1)

\* The second page of size 2 of three wines sorted by vintage, latest first, two
\* of them of one vintage: it holds the third element.
C13_Witness ==
    /\ reply.request.op = "list_page"
    /\ reply.status = 200
    /\ reply.request.query = [NoQuery EXCEPT !.page = 2, !.page_size = 2,
                                             !.sort_by = "vintage"]
    /\ Len(db.wines) = 3
    /\ db.wines[1].vintage = Some(2015)
    /\ db.wines[2].vintage = Some(2016)
    /\ db.wines[3].vintage = Some(2015)
    /\ reply.response.page[1].items = <<3>>
    /\ reply.response.page[1].total_pages = 2

(***************************************************************************)
(* The drinking-window filter of the list operations.                      *)
(***************************************************************************)
\* The three drinking-window statuses.
WindowStatuses == {"ready_to_drink", "approaching_deadline", "not_ready"}

\* The drinking_window_status the answered request asked for.
AskedStatus == reply.request.query.filter.drinking_window_status

\* The wines the answered list request returned.
Returned ==
    IF reply.request.op = "list_page"
    THEN {reply.response.page[1].items[k] :
             k \in 1..Len(reply.response.page[1].items)}
    ELSE {reply.response.wines[k] : k \in 1..Len(reply.response.wines)}

\* A list or page request with one of the three statuses, answered.
StatusListed ==
    /\ reply.request.op \in {"list", "list_page"}
    /\ reply.status = 200
    /\ AskedStatus # None
    /\ AskedStatus[1] \in WindowStatuses

\* The wine has bottles in stock.
InStock(wine) == wine.quantity # None /\ wine.quantity[1] > 0

(***************************************************************************)
(* C14.  With drinking_window_status ready_to_drink, approaching_deadline  *)
(* or not_ready, the list and the paginated list never return a wine whose *)
(* quantity is 0 or null.                                                  *)
(***************************************************************************)
C14_OutOfStockExcluded ==
    StatusListed => \A i \in Returned : InStock(db.wines[i])

(***************************************************************************)
(* C15.  The date predicates select exactly: ready_to_drink, both dates    *)
(* non-null and drink_after_date <= today <= drink_before_date;            *)
(* approaching_deadline, drink_before_date non-null and today <=           *)
(* drink_before_date <= today + 30 days; not_ready, drink_after_date       *)
(* non-null and drink_after_date > today.  A wine with a null date in a    *)
(* compared position is never selected.                                    *)
(***************************************************************************)
\* The date predicate of `status`, as stated.
InWindow(wine, status) ==
    LET after == wine.drink_after_date
        before == wine.drink_before_date
    IN  IF status = "ready_to_drink"
        THEN after # None /\ before # None /\ after[1] <= Today /\ Today <= before[1]
        ELSE IF status = "approaching_deadline"
        THEN before # None /\ Today <= before[1] /\ before[1] <= Today + DeadlineDays
        ELSE after # None /\ after[1] > Today

C15_DatePredicatesExact ==
    /\ StatusListed
       => Returned = {i \in 1..Len(db.wines) : InWindow(db.wines[i], AskedStatus[1])}
    /\ (/\ reply.request.op = "build_wine_count_query"
        /\ reply.request.query.filter.wine_type \in {None, Some(<<>>)}
        /\ AskedStatus # None
        /\ AskedStatus[1] \in WindowStatuses)
       => reply.response.count[1]
             = Cardinality({i \in 1..Len(db.wines) :
                               /\ InStock(db.wines[i])
                               /\ InWindow(db.wines[i], AskedStatus[1])})

\* A wine whose window opens today is listed as ready to drink.
C15_Witness ==
    /\ StatusListed
    /\ reply.request.op = "list"
    /\ AskedStatus = Some("ready_to_drink")
    /\ Len(db.wines) = 1
    /\ db.wines[1].drink_after_date = Some(Today)
    /\ db.wines[1].drink_before_date = Some(Today + 1)
    /\ Returned = {1}

(***************************************************************************)
(* C17.  A sort_order other than asc or desc, and a drinking_window_status *)
(* other than the three statuses, each signal an input validation failure  *)
(* to the caller; neither is silently accepted.                            *)
(***************************************************************************)
C17_InvalidStatusRejected ==
    (/\ reply.request.op \in {"list", "list_page"}
     /\ AskedStatus # None
     /\ AskedStatus[1] \notin WindowStatuses)
    => reply.status \in {400, 422}

(***************************************************************************)
(* C16.  A sort_by outside {id, name, producer, vintage, type} is rejected *)
(* with an error, never ignored or replaced by a default; a whitelisted    *)
(* sort_by yields a result ordered by that column.                         *)
(***************************************************************************)
\* The whitelist of sort columns.
SortWhitelist == {"id", "name", "producer", "vintage", "type"}

\* Every two neighbours of `rows` are in the order of column sort_by.
OrderedBy(rows, sort_by, sort_order) ==
    \A k \in 1..(Len(rows) - 1) : InOrder(rows[k], rows[k + 1], sort_by, sort_order)

C16_SortByWhitelisted ==
    LET q == reply.request.query
    IN  /\ reply.request.op = "list_page"
           => IF q.sort_by \in SortWhitelist
              THEN reply.status = 200
                      => OrderedBy(reply.response.page[1].items, q.sort_by, q.sort_order)
              ELSE reply.status \in {400, 422} /\ reply.response = NoResponse
        /\ reply.request.op = "apply_sorting"
           => IF q.sort_by \in SortWhitelist
              THEN /\ reply.response.raised = None
                   /\ Len(reply.response.wines) = Len(db.wines)
                   /\ OrderedBy(reply.response.wines, q.sort_by, q.sort_order)
              ELSE /\ reply.response.raised = Some("ValueError")
                   /\ reply.response.wines = <<>>

\* Sorted by name, "B" (the second wine) comes before "a" (the first).
C16_Witness ==
    /\ reply.request.op = "list_page"
    /\ reply.status = 200
    /\ reply.request.query.sort_by = "name"
    /\ reply.request.query.sort_order = "asc"
    /\ Len(db.wines) = 2
    /\ db.wines[1].name = <<97>>
    /\ db.wines[2].name = <<66>>
    /\ reply.response.page[1].items = <<2, 1>>

(***************************************************************************)
(* C18.  Wine creation is atomic: the wine row and every grape-composition *)
(* row of the request become visible together, or, if the create fails,    *)
(* none of them does; no committed state holds a wine with only part of    *)
(* its requested composition.                                              *)
(***************************************************************************)
\* The grape-composition rows a create request asks for, for the wine wine_id.
RequestedGrapes(payload, wine_id) ==
    [i \in 1..Len(GrapeEntries(payload.grape_composition)) |->
        [wine_id |-> wine_id,
         grape_variety |-> GrapeEntries(payload.grape_composition)[i].grape_variety,
         percentage |-> GrapeEntries(payload.grape_composition)[i].percentage]]

C18_CreateAtomic ==
    [][/\ db' # db
          => \E t \in Workers :
                /\ Commits(t)
                /\ req[t].request.op = "create"
                /\ db'.wines = Append(db.wines, WineRow(req[t].request.payload))
                /\ db'.grape_compositions
                      = db.grape_compositions
                           \o RequestedGrapes(req[t].request.payload, Len(db.wines) + 1)
       /\ \A t \in Workers :
             (req[t].request.op = "create" /\ reply'.worker = t /\ reply'.status = 500
                  /\ req[t].pc = "pending")
             => db' = db
      ]_vars

\* A wine created with two grapes: the answer is 201 and the wine has both rows.
C18_Witness ==
    /\ reply.status = 201
    /\ reply.request.op = "create"
    /\ Len(db.wines) = 1
    /\ Len(db.grape_compositions) = 2
    /\ \A i \in 1..2 : db.grape_compositions[i].wine_id = 1

(***************************************************************************)
(* C19.  A create request with both drinking-window dates and              *)
(* drink_after_date >= drink_before_date is rejected before any write, so  *)
(* every stored wine that has both dates has drink_after_date strictly     *)
(* before drink_before_date.                                               *)
(***************************************************************************)
C19_WindowOrdered ==
    [][/\ \A t \in Workers :
             (/\ Starts(t)
              /\ StartedRequest(t).op = "create"
              /\ StartedRequest(t).payload.drink_after_date # None
              /\ StartedRequest(t).payload.drink_before_date # None
              /\ StartedRequest(t).payload.drink_after_date[1]
                    >= StartedRequest(t).payload.drink_before_date[1])
             => RejectedWith(t, 422)
       /\ \A i \in 1..Len(db'.wines) :
             (db'.wines[i].drink_after_date # None /\ db'.wines[i].drink_before_date # None)
             => db'.wines[i].drink_after_date[1] < db'.wines[i].drink_before_date[1]
      ]_vars

\* A request for a window of one day (both dates equal) is answered 422, nothing
\* stored.
C19_Witness ==
    /\ reply.status = 422
    /\ reply.request.op = "create"
    /\ reply.request.payload.drink_after_date = Some(1)
    /\ reply.request.payload.drink_before_date = Some(1)
    /\ db.wines = <<>>

(***************************************************************************)
(* C20.  Creating a wine with a non-empty grape composition succeeds only  *)
(* if the percentages sum to within 0.5 of 100 and no two grape_variety    *)
(* values are equal ignoring case and surrounding whitespace: sums of 99.5 *)
(* to 100.5 are accepted, sums of 94 or 106 and a composition repeating a  *)
(* variety in different case are rejected.                                 *)
(***************************************************************************)
\* The percentages of `entries`, decimal numbers of hundredths of a percent, add
\* up to 100%, give or take 0.5%.
WithinTolerance(entries) ==
    LET RECURSIVE Sum(_)
        Sum(e) == IF e = <<>> THEN 0 ELSE e[1].percentage + Sum(Tail(e))
    IN  Sum(entries) \in 9950..10050

\* No two entries name the same variety, ignoring case and surrounding whitespace.
VarietiesDistinct(entries) ==
    \A i, j \in 1..Len(entries) :
        i # j => Lower(Strip(entries[i].grape_variety))
                    # Lower(Strip(entries[j].grape_variety))

\* Each entry by itself is well-formed: a variety of 1..100 characters and a
\* percentage of 0..100%.
EntriesWellFormed(entries) ==
    \A i \in 1..Len(entries) :
        /\ Len(entries[i].grape_variety) \in 1..100
        /\ entries[i].percentage \in 0..10000

C20_CompositionValidated ==
    [][/\ \A t \in Workers :
             LET entries == GrapeEntries(StartedRequest(t).payload.grape_composition)
             IN  (Starts(t) /\ StartedRequest(t).op = "create" /\ entries # <<>>)
                 => IF WithinTolerance(entries) /\ VarietiesDistinct(entries)
                    THEN EntriesWellFormed(entries) => req'[t].pc = "pending"
                    ELSE RejectedWith(t, 422)
       /\ (reply'.status = 201
           /\ GrapeEntries(reply'.request.payload.grape_composition) # <<>>)
          => /\ WithinTolerance(GrapeEntries(reply'.request.payload.grape_composition))
             /\ VarietiesDistinct(GrapeEntries(reply'.request.payload.grape_composition))
      ]_vars

(***************************************************************************)
(* C21.  The inventory log is append-only and written only by the stock    *)
(* mutations: no step modifies or removes a log row; each successful       *)
(* adjust or consume appends exactly one row, for its wine; create, the    *)
(* reads and every failed operation leave all wines' quantities and all    *)
(* log rows as they were.                                                  *)
(***************************************************************************)
\* The quantities of the wines stored before the step are as they were.
QuantitiesUnchanged ==
    /\ Len(db'.wines) >= Len(db.wines)
    /\ \A w \in 1..Len(db.wines) : db'.wines[w].quantity = db.wines[w].quantity

C21_LogAppendOnly ==
    [][/\ Len(db'.inventory_logs) >= Len(db.inventory_logs)
       /\ SubSeq(db'.inventory_logs, 1, Len(db.inventory_logs)) = db.inventory_logs
       /\ IF \E t \in Workers : Commits(t) /\ req[t].request.op \in {"adjust", "consume"}
          THEN \E t \in Workers :
                  /\ Commits(t)
                  /\ Len(db'.inventory_logs) = Len(db.inventory_logs) + 1
                  /\ db'.inventory_logs[Len(db'.inventory_logs)].wine_id
                        = req[t].request.wine_id
                  /\ db'.inventory_logs[Len(db'.inventory_logs)].change_type
                        = IF req[t].request.op = "adjust"
                          THEN "manual_adjustment" ELSE "consume"
                  /\ OtherWinesUnchanged(req[t].request.wine_id)
          ELSE /\ db'.inventory_logs = db.inventory_logs
               /\ QuantitiesUnchanged
      ]_vars

\* Beside the wine with a history a second wine has been created, the first
\* wine's last bottle has been consumed, and its inventory log has been read: the
\* log holds the row it had and the consume's row, the second wine none.
C21_Witness ==
    /\ reply.request.op = "inventory_log"
    /\ reply.request.wine_id = 1
    /\ reply.status = 200
    /\ Len(reply.response.logs) = 2
    /\ Len(db.wines) = 2
    /\ db.wines[1].quantity = Some(0)
    /\ db.wines[2].quantity = None
    /\ Len(db.inventory_logs) = 2
    /\ db.inventory_logs[1] = [AdjustLogRow(1, 1, 1, None) EXCEPT !.timestamp = Some(1)]
    /\ db.inventory_logs[2].change_type = "consume"
    /\ db.inventory_logs[2].wine_id = 1

(***************************************************************************)
(* C22.  In every operation, the paginated list included, an unexpected    *)
(* failure such as an error of the persistence layer is answered as an     *)
(* internal error (500), never as a validation error (400) or not found;   *)
(* and the known domain errors (not found, would go negative, already      *)
(* zero) are never answered as internal errors.                            *)
(***************************************************************************)
C22_FailuresClassified ==
    [][\A t \in Workers :
          /\ (reply'.worker = t /\ reply'.response.raised # None)
             => reply'.status = 500
          /\ (req[t].pc = "pending" /\ req'[t].pc = "idle" /\ reply'.worker = t
                  /\ reply'.status # 200 /\ reply'.status # 201)
             => reply'.status = 500
          /\ (Starts(t) /\ reply'.worker = t /\ reply'.response.raised = None)
             => reply'.status # 500
      ]_vars

(***************************************************************************)
(* C23.  The suggestion proxy either returns a date pair with              *)
(* drink_after_date < drink_before_date or fails with ExternalApiError.    *)
(* It makes at most one upstream call per request: after a timeout, a      *)
(* transport error, 429, 4xx, 5xx or a malformed body it fails without     *)
(* calling again; without base URL or credential it fails without any      *)
(* upstream call.                                                          *)
(***************************************************************************)
\* Date a is strictly before date b, by year, then month, then day.
StrictlyBefore(a, b) ==
    <<a.year, a.month, a.day>> # <<b.year, b.month, b.day>>
    /\ (a.year # b.year => a.year < b.year)
    /\ (a.year = b.year /\ a.month # b.month => a.month < b.month)
    /\ (a.year = b.year /\ a.month = b.month => a.day < b.day)

\* The upstream call cannot have produced a date pair.
UpstreamFailed(outcome) ==
    \/ outcome.kind # "response"
    \/ outcome.status_code >= 400
    \/ outcome.body.json # "object"
    \/ outcome.body.drink_after_date = None
    \/ outcome.body.drink_before_date = None

C23_SuggestionOrError ==
    [][\A t \in Workers :
          \* The function ends: a well-ordered pair or ExternalApiError, never both.
          /\ (reply'.worker = t /\ reply'.request.op = "fetch_suggestion")
             => /\ (reply'.response.suggestion = None)
                      = (reply'.response.raised = Some("ExternalApiError"))
                /\ reply'.response.suggestion # None
                      => StrictlyBefore(reply'.response.suggestion[1].drink_after_date,
                                        reply'.response.suggestion[1].drink_before_date)
                /\ (reply'.response.upstream # None
                        /\ UpstreamFailed(reply'.response.upstream[1]))
                      => reply'.response.raised = Some("ExternalApiError")
          \* Not configured: it fails at once, with no upstream call.
          /\ (Starts(t) /\ StartedRequest(t).op = "fetch_suggestion"
                  /\ (~Truthy(StartedRequest(t).cfg.base_url)
                         \/ ~Truthy(StartedRequest(t).cfg.api_key)))
             => /\ reply'.worker = t
                /\ reply'.response.raised = Some("ExternalApiError")
                /\ reply'.response.upstream = None
                /\ req'[t].pc = "idle"
          \* One upstream call: whatever it brings, the function ends.
          /\ (req[t].pc = "upstream" /\ req'[t] # req[t])
             => /\ req'[t].pc = "idle"
                /\ reply'.worker = t
                /\ reply'.response.upstream # None
          /\ (req[t].pc # "upstream" /\ req'[t].pc = "upstream")
             => req[t].pc = "idle"
      ]_vars

(***************************************************************************)
(* C24.  For every total_items >= 0 and page_size in 1..100, total_pages   *)
(* is ceil(total_items / page_size): the least number of pages of          *)
(* page_size that hold total_items; 0 when nothing matches, 3 for 25       *)
(* matches at page_size 10, and total_items / page_size when that divides  *)
(* evenly.                                                                 *)
(***************************************************************************)
C24_TotalPagesIsCeiling ==
    reply.request.op = "total_pages"
    => LET n == reply.response.page[1].total_items
           size == reply.response.page[1].page_size
           pages == reply.response.page[1].total_pages
       IN  /\ pages >= 0
           /\ pages * size >= n
           /\ pages > 0 => (pages - 1) * size < n
           /\ n = 0 => pages = 0
           /\ n % size = 0 => pages * size = n

\* 25 matches at page_size 10 make 3 pages.
C24_Witness ==
    /\ reply.request.op = "total_pages"
    /\ reply.response.page[1].total_items = 25
    /\ reply.response.page[1].page_size = 10
    /\ reply.response.page[1].total_pages = 3

(***************************************************************************)
(* C25.  A GET request to /api/wines/drinking-window-suggestions with a    *)
(* valid wine_type and vintage is dispatched to the suggestion handler and *)
(* ends in 200 with the date pair or in 502; the earlier-registered route  *)
(* GET /api/wines/{wine_id} does not capture it.                           *)
(***************************************************************************)
C25_SuggestionsRouted ==
    (/\ reply.request.path = SuggestionsPath
     /\ reply.request.query.filter.wine_type # None
     /\ reply.request.query.filter.wine_type[1] \in SupportedWineType
     /\ reply.request.query.filter.vintage # None
     /\ reply.request.query.filter.vintage[1] \in 1800..2100)
    => /\ reply.request.op = "suggest"
       /\ reply.status \in {200, 502}

(***************************************************************************)
(* C26.  In every reachable state, also under interleaved concurrent       *)
(* adjust and consume requests, each wine's stored quantity (null as 0) is *)
(* its quantity at creation (null as 0) plus the sum of quantity_change    *)
(* over the wine's log rows.  A wine is created without log rows, so this  *)
(* says that every step changes a wine's quantity by what it adds to the   *)
(* sum of the wine's log rows.                                             *)
(***************************************************************************)
\* The sum of quantity_change over the log rows of wine w.
RECURSIVE SumOfChanges(_, _)
SumOfChanges(logs, w) ==
    IF logs = <<>> THEN 0
    ELSE (IF Head(logs).wine_id = w THEN Head(logs).quantity_change ELSE 0)
         + SumOfChanges(Tail(logs), w)

C26_QuantityIsSumOfChanges ==
    [][/\ \A w \in 1..Len(db.wines) :
             OrZero(db'.wines[w].quantity) - OrZero(db.wines[w].quantity)
                = SumOfChanges(db'.inventory_logs, w) - SumOfChanges(db.inventory_logs, w)
       /\ \A w \in (Len(db.wines) + 1)..Len(db'.wines) :
             SumOfChanges(db'.inventory_logs, w) = 0
      ]_vars

(***************************************************************************)
(* C27.  For any wine and any interleaving of concurrent consume requests  *)
(* with no adjustment between them, the consumes that succeed are never    *)
(* more than the wine's quantity before them; two concurrent consumes of a *)
(* wine with quantity 1 cannot both succeed.  Each consume that succeeds   *)
(* leaves one log row, and the first row's new_quantity is the quantity    *)
(* before the consumes less 1.                                             *)
(***************************************************************************)
\* The log rows of wine w, oldest first.
RECURSIVE RowsOf(_, _)
RowsOf(logs, w) ==
    IF logs = <<>> THEN <<>>
    ELSE (IF Head(logs).wine_id = w THEN <<Head(logs)>> ELSE <<>>)
         \o RowsOf(Tail(logs), w)

C27_ConsumesWithinStock ==
    \A w \in 1..Len(db.wines) :
        LET rows == RowsOf(db.inventory_logs, w)
        IN  (rows # <<>> /\ \A i \in 1..Len(rows) : rows[i].change_type = "consume")
            => Len(rows) <= rows[1].new_quantity + 1

====
